---- MODULE Spec2Model ----
(***************************************************************************)
(* Model of the verifai coordination core: the dialogue tracker            *)
(* (verifai/comms/dialogue.py), the message bus                            *)
(* (uvm_ai/comms/message_bus.py), the coordinator                          *)
(* (verifai/agents/orchestrator.py) and the sub-actors                     *)
(* (uvm_ai/agents/env_agent.py, verifai/agents/scoreboard_agent.py,        *)
(* uvm_ai/agents/uvm_agent_agent.py).                                      *)
(*                                                                         *)
(* Spec     drives the tracker's public methods in any order.              *)
(* SysSpec  runs the coordinator and the sub-actors over the bus, one      *)
(*          step per stretch of code between two suspension points.        *)
(* BusSpec  drives the bus's public methods with handlers that return,     *)
(*          raise, subscribe or publish further messages.                  *)
(* SubsSpec drives subscribe, unsubscribe and publish.                     *)
(* CoordSpec runs the coordinator alone: the environment sends it the      *)
(*          messages of the other actors and calls its public methods.     *)
(* LoopSpec runs the coordinator alone with several dialogues answered     *)
(*          concurrently beside coverage reports.                          *)
(* ActorSpec runs the sub-actors alone, uvm_agent included: the            *)
(*          environment sends them the coordinator's messages.             *)
(***************************************************************************)
EXTENDS Integers, Sequences, FiniteSets, TLC

VARIABLES
    dialogues,      \* DialogueManager._dialogues: entries in insertion order
    max_revisions,  \* DialogueManager._max_revisions
    log,            \* the calls made so far to the component under test, in order
    last,           \* the last tracker call: its argument, the map before it, its result
    subscribers,    \* MessageBus._subscribers: channel -> handlers, in subscription order
    history,        \* MessageBus._history
    tasks,          \* the coroutines started so far, each with the point it has reached
    next_id,        \* the next fresh message id (uuid4)
    llm_calls,      \* generation calls started so far
    type_subscribers,   \* MessageBus._type_subscribers: (type, handlers) in key order
    logged,         \* the records the bus has handed to its logger, in order
    plan,           \* OrchestratorAgent._plan
    artifacts,      \* OrchestratorAgent._artifacts
    files           \* ProjectManager._files: relative path -> content

trackerVars == <<dialogues, max_revisions>>
driverVars == <<log, last>>
sysVars == <<subscribers, history, tasks, next_id, llm_calls, type_subscribers, logged>>
coordVars == <<plan, artifacts, files>>
vars == <<dialogues, max_revisions, log, last, subscribers, history, tasks, next_id,
          llm_calls, type_subscribers, logged, plan, artifacts, files>>

(***************************************************************************)
(* Bounds and input sets                                                   *)
(***************************************************************************)
MaxOps == 4                     \* tracker calls per run of Spec
MaxDelegations == 2             \* delegate_to_agent calls per run of SysSpec
MaxLlmCalls == 4                \* generation calls per run of SysSpec
MaxBusCalls == 3                \* calls of the bus's methods per run of BusSpec
MaxUnsubscribes == 1            \* unsubscribe calls per run of SubsSpec

Ids == {1, 2}                   \* message ids of the PlanRequests
NoCid == 0                      \* correlation_id None (or ""): falsy in Python
CorrIds == Ids \cup {NoCid}
Codes == {1}                    \* proposed_code texts of the responses given to the tracker
RevisionLimits == {1, 2, 3}     \* max_revisions given at construction (Spec)
SysRevisionLimits == {1, 2}     \* max_revisions given at construction (SysSpec)

None == [kind |-> "None"]

(***************************************************************************)
(* Message model (verifai/models/messages.py)                              *)
(***************************************************************************)
PlanRequest(id, sender, recipient) ==
    [kind |-> "PlanRequest", id |-> id, sender |-> sender,
     recipient |-> recipient, correlation_id |-> NoCid]

PlanResponse(id, sender, recipient, cid, code) ==
    [kind |-> "PlanResponse", id |-> id, sender |-> sender,
     recipient |-> recipient, correlation_id |-> cid, proposed_code |-> code]

ReviewFeedback(id, sender, recipient, cid, approved) ==
    [kind |-> "ReviewFeedback", id |-> id, sender |-> sender,
     recipient |-> recipient, correlation_id |-> cid, approved |-> approved]

\* Percentages are whole numbers here; file names are sequences of their parts.
CoverageReport(id, sender, recipient, overall_coverage, coverage_bins, uncovered_scenarios) ==
    [kind |-> "CoverageReport", id |-> id, sender |-> sender,
     recipient |-> recipient, correlation_id |-> NoCid,
     overall_coverage |-> overall_coverage, coverage_bins |-> coverage_bins,
     uncovered_scenarios |-> uncovered_scenarios]

CoverageDirective(id, sender, recipient, target_bins, target_scenarios) ==
    [kind |-> "CoverageDirective", id |-> id, sender |-> sender,
     recipient |-> recipient, correlation_id |-> NoCid,
     target_bins |-> target_bins, target_scenarios |-> target_scenarios]

SequenceProposal(id, sender, recipient, sequence_name, sequence_code) ==
    [kind |-> "SequenceProposal", id |-> id, sender |-> sender,
     recipient |-> recipient, correlation_id |-> NoCid,
     sequence_name |-> sequence_name, sequence_code |-> sequence_code]

CodeArtifact(id, sender, recipient, filename, content, component_type) ==
    [kind |-> "CodeArtifact", id |-> id, sender |-> sender,
     recipient |-> recipient, correlation_id |-> NoCid,
     filename |-> filename, content |-> content, component_type |-> component_type]

(***************************************************************************)
(* Dialogue tracker (verifai/comms/dialogue.py)                            *)
(***************************************************************************)
PENDING == "pending"
IN_PROGRESS == "in_progress"
AWAITING_REVIEW == "awaiting_review"
REVISION_REQUESTED == "revision_requested"
APPROVED == "approved"
FAILED == "failed"

DialogueState ==
    {PENDING, IN_PROGRESS, AWAITING_REVIEW, REVISION_REQUESTED, APPROVED, FAILED}

Terminal == {APPROVED, FAILED}

\* A Python dict: keys are the entries' correlation ids, kept in insertion order.
HasKey(d, cid) == \E i \in 1..Len(d) : d[i].correlation_id = cid

IndexOf(d, cid) == CHOOSE i \in 1..Len(d) : d[i].correlation_id = cid

\* A store that overwrites the first entry instead of the entry of the key.
DictSet_first(d, cid, e) ==
    IF HasKey(d, cid) THEN [d EXCEPT ![1] = e] ELSE Append(d, e)

\* d[cid] = e: a new key goes to the end, an existing key keeps its place.
DictSet(d, cid, e) ==
    IF HasKey(d, cid) THEN [d EXCEPT ![IndexOf(d, cid)] = e] ELSE Append(d, e)

get_dialogue(d, cid) == IF HasKey(d, cid) THEN d[IndexOf(d, cid)] ELSE None

DialogueEntry(request, limit) ==
    [correlation_id |-> request.id,
     requester      |-> request.sender,
     responder      |-> request.recipient,
     state          |-> IN_PROGRESS,
     request        |-> request,
     response       |-> None,
     feedback       |-> None,
     revision_count |-> 0,
     max_revisions  |-> limit]

start_dialogue_default_limit(d, limit, request) ==
    LET entry == DialogueEntry(request, 3)
    IN  [dialogues |-> DictSet(d, request.id, entry), ret |-> entry]

\* start_dialogue that registers nothing
start_dialogue_noop(d, limit, request) ==
    [dialogues |-> d, ret |-> None]

start_dialogue(d, limit, request) ==
    LET entry == DialogueEntry(request, limit)
    IN  [dialogues |-> DictSet(d, request.id, entry), ret |-> entry]

record_response_creates(d, response) ==
    LET cid == response.correlation_id
        old == IF HasKey(d, cid) THEN get_dialogue(d, cid)
               ELSE [DialogueEntry(PlanRequest(cid, response.recipient, response.sender), 3)
                        EXCEPT !.request = None]
        entry == [old EXCEPT !.response = response, !.state = AWAITING_REVIEW]
    IN  [dialogues |-> DictSet(d, cid, entry), ret |-> entry]

record_response(d, response) ==
    LET cid == response.correlation_id
    IN  IF cid = NoCid \/ ~HasKey(d, cid)
        THEN [dialogues |-> d, ret |-> None]
        ELSE LET entry == [get_dialogue(d, cid) EXCEPT
                               !.response = response,
                               !.state = AWAITING_REVIEW]
             IN  [dialogues |-> DictSet(d, cid, entry), ret |-> entry]

\* A record_feedback that sets the state and the count but stores no feedback.
record_feedback_unstored(d, feedback) ==
    LET cid == feedback.correlation_id
    IN  IF cid = NoCid \/ ~HasKey(d, cid)
        THEN [dialogues |-> d, ret |-> None]
        ELSE LET e1 == get_dialogue(d, cid)
                 n  == e1.revision_count + 1
                 entry ==
                     IF feedback.approved
                     THEN [e1 EXCEPT !.state = APPROVED]
                     ELSE [e1 EXCEPT
                               !.revision_count = n,
                               !.state = IF n >= e1.max_revisions
                                         THEN FAILED ELSE REVISION_REQUESTED]
             IN  [dialogues |-> DictSet(d, cid, entry), ret |-> entry]

record_feedback_gt(d, feedback) ==
    LET cid == feedback.correlation_id
    IN  IF cid = NoCid \/ ~HasKey(d, cid)
        THEN [dialogues |-> d, ret |-> None]
        ELSE LET e1 == [get_dialogue(d, cid) EXCEPT !.feedback = feedback]
                 n  == e1.revision_count + 1
                 entry ==
                     IF feedback.approved
                     THEN [e1 EXCEPT !.state = APPROVED]
                     ELSE [e1 EXCEPT
                               !.revision_count = n,
                               !.state = IF n > e1.max_revisions
                                         THEN FAILED ELSE REVISION_REQUESTED]
             IN  [dialogues |-> DictSet(d, cid, entry), ret |-> entry]

record_feedback_counts_approval(d, feedback) ==
    LET cid == feedback.correlation_id
    IN  IF cid = NoCid \/ ~HasKey(d, cid)
        THEN [dialogues |-> d, ret |-> None]
        ELSE LET e1 == [get_dialogue(d, cid) EXCEPT !.feedback = feedback]
                 n  == e1.revision_count + 1
                 entry ==
                     IF feedback.approved
                     THEN [e1 EXCEPT !.revision_count = n, !.state = APPROVED]
                     ELSE [e1 EXCEPT
                               !.revision_count = n,
                               !.state = IF n >= e1.max_revisions
                                         THEN FAILED ELSE REVISION_REQUESTED]
             IN  [dialogues |-> DictSet(d, cid, entry), ret |-> entry]

record_feedback(d, feedback) ==
    LET cid == feedback.correlation_id
    IN  IF cid = NoCid \/ ~HasKey(d, cid)
        THEN [dialogues |-> d, ret |-> None]
        ELSE LET e1 == [get_dialogue(d, cid) EXCEPT !.feedback = feedback]
                 n  == e1.revision_count + 1
                 entry ==
                     IF feedback.approved
                     THEN [e1 EXCEPT !.state = APPROVED]
                     ELSE [e1 EXCEPT
                               !.revision_count = n,
                               !.state = IF n >= e1.max_revisions
                                         THEN FAILED ELSE REVISION_REQUESTED]
             IN  [dialogues |-> DictSet(d, cid, entry), ret |-> entry]

get_active_dialogues_not_approved(d) ==
    SelectSeq(d, LAMBDA e : e.state # APPROVED)

get_active_dialogues(d) ==
    SelectSeq(d, LAMBDA e : e.state \notin {APPROVED, FAILED})

(***************************************************************************)
(* Actors and the bus (uvm_ai/agents/base.py, uvm_ai/comms/message_bus.py) *)
(***************************************************************************)
Orchestrator == "orchestrator"
SubActors == {"env_agent", "scoreboard_agent"}
Actors == {Orchestrator} \cup SubActors
\* "codegen" and "sequence_agent" have no subscriber here.
Channels == Actors \cup {"codegen", "sequence_agent", "uvm_agent"}

\* The actors that answer a PlanRequest and a rejecting ReviewFeedback with a
\* PlanResponse: the sub-actors of SysSpec, uvm_agent and sequence_agent.
PlanActors == SubActors \cup {"uvm_agent", "sequence_agent"}

\* A coroutine: pc is the point it is suspended at.
\*   ready     created by gather, not yet run
\*   call_llm  awaiting the generation service
\*   gather    awaiting the handlers of its publish
\*   done      returned;  raised  ended by an exception
Task(fn, self, msg, pc, parent) ==
    [fn |-> fn, self |-> self, msg |-> msg, pc |-> pc, parent |-> parent]

Finished(task) == task.pc \in {"done", "raised"}

\* a lock kept until the handlers have been gathered
locked_until_gathered(ts) == \E t \in 1..Len(ts) : ts[t].pc = "gather"

\* MessageBus._lock is held: publish takes it for the append to the history
\* only (async with self._lock), and nothing suspends inside that block, so
\* no coroutine is ever suspended at "locked".
Locked(ts) == \E t \in 1..Len(ts) : ts[t].pc = "locked"

\* A record handed to logger.debug by the bus.
LogRecord(event, target, message) ==
    [level |-> "debug", event |-> event, target |-> target, message |-> message]

\* subscribe(channel, callback)
subscribe(subs, channel, callback) ==
    [subs EXCEPT ![channel] = Append(@, callback)]

\* subscribe_type(msg_type, callback): a defaultdict keeps its keys in the
\* order of their first use.
subscribe_type(tsubs, msg_type, callback) ==
    IF \E i \in 1..Len(tsubs) : tsubs[i].msg_type = msg_type
    THEN [i \in 1..Len(tsubs) |->
             IF tsubs[i].msg_type = msg_type
             THEN [tsubs[i] EXCEPT !.cbs = Append(@, callback)]
             ELSE tsubs[i]]
    ELSE Append(tsubs, [msg_type |-> msg_type, cbs |-> <<callback>>])

\* a publish that does not look at the type
isinstance_any(message, msg_type) == TRUE

\* unsubscribe(channel, callback): list.remove takes out the first occurrence.
unsubscribe(subs, channel, callback) ==
    LET cbs == subs[channel]
    IN  IF \E i \in 1..Len(cbs) : cbs[i] = callback
        THEN LET i == CHOOSE i \in 1..Len(cbs) :
                          cbs[i] = callback /\ \A j \in 1..(i - 1) : cbs[j] # callback
             IN  [subs EXCEPT ![channel] = SubSeq(cbs, 1, i - 1) \o SubSeq(cbs, i + 1, Len(cbs))]
        ELSE subs

\* isinstance(message, msg_type): every message class derives directly from
\* AgentMessage and none from another message class.
isinstance(message, msg_type) ==
    msg_type = "AgentMessage" \/ message.kind = msg_type

\* The second loop of publish: the handlers of every matching type, in key order.
RECURSIVE type_handlers(_, _)
type_handlers(tsubs, message) ==
    IF tsubs = <<>>
    THEN <<>>
    ELSE (IF isinstance(message, Head(tsubs).msg_type) THEN Head(tsubs).cbs ELSE <<>>)
            \o type_handlers(Tail(tsubs), message)

RECURSIVE Distinct(_)
Distinct(seq) ==
    IF seq = <<>>
    THEN <<>>
    ELSE LET front == Distinct(SubSeq(seq, 1, Len(seq) - 1))
             x == seq[Len(seq)]
         IN  IF \E i \in 1..Len(front) : front[i] = x THEN front ELSE Append(front, x)

\* publish calling each handler once however often it is registered
publish_distinct_handlers(h, ts, t, channel, message) ==
    LET cbs == Distinct(subscribers[channel] \o type_handlers(type_subscribers, message))
        new == [i \in 1..Len(cbs) |->
                    Task("_handle_message", cbs[i], message, "ready", t)]
    IN  [history |-> Append(h, message),
         logged  |-> Append(logged, LogRecord("publish", channel, message.kind)),
         tasks   |-> [ts EXCEPT ![t].pc = IF Len(cbs) = 0 THEN "done" ELSE "gather"]
                        \o new]

\* publish putting the message at the head of the history
publish_prepends(h, ts, t, channel, message) ==
    LET cbs == subscribers[channel] \o type_handlers(type_subscribers, message)
        new == [i \in 1..Len(cbs) |->
                    Task("_handle_message", cbs[i], message, "ready", t)]
    IN  [history |-> <<message>> \o h,
         logged  |-> Append(logged, LogRecord("publish", channel, message.kind)),
         tasks   |-> [ts EXCEPT ![t].pc = IF Len(cbs) = 0 THEN "done" ELSE "gather"]
                        \o new]

\* publish leaving the history as it is
publish_without_append(h, ts, t, channel, message) ==
    LET cbs == subscribers[channel] \o type_handlers(type_subscribers, message)
        new == [i \in 1..Len(cbs) |->
                    Task("_handle_message", cbs[i], message, "ready", t)]
    IN  [history |-> h,
         logged  |-> Append(logged, LogRecord("publish", channel, message.kind)),
         tasks   |-> [ts EXCEPT ![t].pc = IF Len(cbs) = 0 THEN "done" ELSE "gather"]
                        \o new]

\* publish(channel, message) called by task t: the append to history, the
\* debug record, then one coroutine per handler of the channel and per handler
\* of a matching type, handed to gather; with no handler the call returns at
\* once, and the publish being the caller's last statement, the caller
\* returns too.  Nothing in it suspends before gather.
publish(h, ts, t, channel, message) ==
    LET cbs == subscribers[channel] \o type_handlers(type_subscribers, message)
        new == [i \in 1..Len(cbs) |->
                    Task("_handle_message", cbs[i], message, "ready", t)]
    IN  [history |-> Append(h, message),
         logged  |-> Append(logged, LogRecord("publish", channel, message.kind)),
         tasks   |-> [ts EXCEPT ![t].pc = IF Len(cbs) = 0 THEN "done" ELSE "gather"]
                        \o new]

\* send publishing on the sender's channel
send_to_sender(h, ts, t, message) == publish(h, ts, t, message.sender, message)

send(h, ts, t, message) == publish(h, ts, t, message.recipient, message)

\* gather without return_exceptions: the first exception of a handler is
\* raised in the awaiting task
gather_fail_fast(ts, t) ==
    IF \E u \in 1..Len(ts) : ts[u].parent = t /\ ts[u].pc = "raised"
    THEN "raised"
    ELSE IF \A u \in 1..Len(ts) : ts[u].parent = t => Finished(ts[u])
         THEN "done"
         ELSE "gather"

\* handlers started as tasks and not awaited (fire and forget)
gather_not_awaited(ts, t) == "done"

\* waiting for the first handler only (asyncio.wait, FIRST_COMPLETED)
gather_first_completed(ts, t) ==
    IF \E u \in 1..Len(ts) : ts[u].parent = t /\ Finished(ts[u])
    THEN "done"
    ELSE "gather"

\* await asyncio.gather(*tasks, return_exceptions=True) in task t: where t
\* stands once the loop has looked at its handlers.
gather(ts, t) ==
    IF \A u \in 1..Len(ts) : ts[u].parent = t => Finished(ts[u])
    THEN "done"
    ELSE "gather"

\* get_history_for looking at the recipient only
get_history_for_recipient(h, agent_name) ==
    SelectSeq(h, LAMBDA m : m.recipient = agent_name)

\* get_history_for(agent_name)
get_history_for(h, agent_name) ==
    SelectSeq(h, LAMBDA m : m.sender = agent_name \/ m.recipient = agent_name)

\* clear_history()
clear_history(h) == <<>>

(***************************************************************************)
(* Generation service results                                              *)
(***************************************************************************)
\* Review texts the service may return, by what _extract_json,
\* review_data.get and the validation of ReviewFeedback make of them:
\*   approved_true, approved_false   {"approved": ..., "issues": [], "suggestions": []}
\*   no_approved_key                 an object without "approved"
\*   not_json                        json.loads raises (caught)
\*   not_object                      a JSON array or scalar: .get raises (caught)
\*   approved_no                     {"approved": "no"}: validated to False
\*   approved_null                   {"approved": null}: ReviewFeedback(...) raises
\*   issues_not_list                 {"approved": true, "issues": "x"}: ReviewFeedback(...) raises
ReviewTexts ==
    {"approved_true", "approved_false", "no_approved_key", "not_json",
     "not_object", "approved_no", "approved_null", "issues_not_list"}

\* The texts that are an approval/issues/suggestions record of the right types.
WellFormedReviews == {"approved_true", "approved_false"}

review_approved(text) == text \notin {"approved_false", "approved_no"}

\* ReviewFeedback(...) stands after the try block: its ValidationError is not caught.
review_raises(text) == text \in {"approved_null", "issues_not_list"}

\* The ReviewFeedback built from a response and the review text.
review_feedback(id, response, text) ==
    ReviewFeedback(id, Orchestrator, response.sender, response.correlation_id,
                   review_approved(text))

(***************************************************************************)
(* The state after construction: an empty tracker and bus, every actor      *)
(* subscribed to the channel of its own name (BaseAgent.__init__).          *)
(***************************************************************************)
Init ==
    /\ dialogues = <<>>
    /\ max_revisions \in RevisionLimits
    /\ log = <<>>
    /\ last = [op |-> "init", arg |-> None, pre |-> <<>>, ret |-> None]
    /\ subscribers = [c \in Channels |-> IF c \in Actors THEN <<c>> ELSE <<>>]
    /\ history = <<>>
    /\ tasks = <<>>
    /\ next_id = 1
    /\ llm_calls = 0
    /\ type_subscribers = <<>>
    /\ logged = <<>>
    /\ plan = None
    /\ artifacts = <<>>
    /\ files = <<>>

SysInit == Init /\ max_revisions \in SysRevisionLimits

(***************************************************************************)
(* SysSpec: the coordinator and the sub-actors                             *)
(***************************************************************************)
Delegations == {i \in 1..Len(tasks) : tasks[i].fn = "delegate_to_agent"}

\* agent_name as the caller gives it: a sub-actor, or a name nobody answers to.
DelegateTargets == SubActors \cup {"codegen"}

\* The message kinds on_message hands to a handler of their own.
Dispatched == {"PlanResponse", "CoverageReport", "SequenceProposal", "CodeArtifact"}

\* OrchestratorAgent.delegate_to_agent, up to the await of gather
delegate_to_agent ==
    \E agent_name \in DelegateTargets :
        /\ Cardinality(Delegations) < MaxDelegations
        /\ ~Locked(tasks)
        /\ LET request == PlanRequest(next_id, Orchestrator, agent_name)
               t == Len(tasks) + 1
               started == start_dialogue(dialogues, max_revisions, request)
               caller == Task("delegate_to_agent", Orchestrator, request, "running", 0)
               sent == send(history, Append(tasks, caller), t, request)
           IN  /\ dialogues' = started.dialogues
               /\ history' = sent.history
               /\ tasks' = sent.tasks
               /\ logged' = sent.logged
               /\ next_id' = next_id + 1
        /\ UNCHANGED <<max_revisions, coordVars, driverVars, subscribers, llm_calls, type_subscribers>>

\* A sub-actor's handler from its start to its first suspension
\* (BaseAgent._handle_message, EnvAgent.on_message).  sequence_agent keeps an
\* InterfaceContract and returns; its handling of a CoverageDirective is not
\* part of this model.
SubActorReceives ==
    \E t \in 1..Len(tasks) :
        /\ tasks[t].pc = "ready"
        /\ tasks[t].self \in PlanActors
        /\ tasks[t].msg.kind # "CoverageDirective"
        /\ LET message == tasks[t].msg
               calls == \/ message.kind = "PlanRequest"
                        \/ message.kind = "ReviewFeedback" /\ ~message.approved
           IN  IF calls
               THEN /\ llm_calls < MaxLlmCalls
                    /\ llm_calls' = llm_calls + 1
                    /\ tasks' = [tasks EXCEPT ![t].pc = "call_llm"]
               ELSE /\ tasks' = [tasks EXCEPT ![t].pc = "done"]
                    /\ UNCHANGED llm_calls
        /\ UNCHANGED <<trackerVars, coordVars, driverVars, subscribers, history, next_id,
                     type_subscribers, logged>>

\* The coordinator's handler from its start to its first suspension, for a
\* PlanResponse and for the kinds on_message passes over
\* (OrchestratorAgent.on_message, _handle_plan_response up to call_llm).
OrchestratorReceives ==
    \E t \in 1..Len(tasks) :
        /\ tasks[t].pc = "ready"
        /\ tasks[t].self = Orchestrator
        /\ tasks[t].msg.kind \notin Dispatched \ {"PlanResponse"}
        /\ LET message == tasks[t].msg
               recorded == record_response(dialogues, message)
           IN  IF message.kind = "PlanResponse"
               THEN /\ dialogues' = recorded.dialogues
                    /\ IF recorded.ret = None
                       THEN /\ tasks' = [tasks EXCEPT ![t].pc = "done"]
                            /\ UNCHANGED llm_calls
                       ELSE /\ llm_calls < MaxLlmCalls
                            /\ llm_calls' = llm_calls + 1
                            /\ tasks' = [tasks EXCEPT ![t].pc = "call_llm"]
               ELSE /\ tasks' = [tasks EXCEPT ![t].pc = "done"]
                    /\ UNCHANGED <<dialogues, llm_calls>>
        /\ UNCHANGED <<max_revisions, coordVars, driverVars, subscribers, history, next_id,
                     type_subscribers, logged>>

\* a response that always takes the id of the message it answers
plan_response_to_id(id, self, message, code) ==
    PlanResponse(id, self, message.sender, message.id, code)

\* The PlanResponse a sub-actor builds for a PlanRequest (correlation_id =
\* request.id) or for a ReviewFeedback (correlation_id = feedback.correlation_id).
plan_response(id, self, message, code) ==
    PlanResponse(id, self, message.sender,
                 IF message.kind = "PlanRequest" THEN message.id ELSE message.correlation_id,
                 code)

\* call_llm returns to a sub-actor: it builds the PlanResponse and sends it
\* (EnvAgent._handle_plan_request, _handle_review_feedback after call_llm).
SubActorResponds ==
    \E t \in 1..Len(tasks), code \in Codes :
        /\ tasks[t].pc = "call_llm"
        /\ tasks[t].self \in PlanActors
        /\ ~(tasks[t].self = "uvm_agent" /\ tasks[t].msg.kind = "PlanRequest")
        /\ ~Locked(tasks)
        /\ LET response == plan_response(next_id, tasks[t].self, tasks[t].msg, code)
               sent == send(history, tasks, t, response)
           IN  /\ history' = sent.history
               /\ tasks' = sent.tasks
               /\ logged' = sent.logged
               /\ next_id' = next_id + 1
        /\ UNCHANGED <<trackerVars, coordVars, driverVars, subscribers, llm_calls, type_subscribers>>

\* call_llm returns review_text to the coordinator's handler t: it parses the
\* review, builds the feedback, records it and sends it
\* (OrchestratorAgent._handle_plan_response after call_llm).
ReviewReturns(t, review_text) ==
    /\ tasks[t].pc = "call_llm"
    /\ tasks[t].fn = "_handle_message"
    /\ tasks[t].self = Orchestrator
    /\ IF review_raises(review_text)
       THEN /\ tasks' = [tasks EXCEPT ![t].pc = "raised"]
            /\ UNCHANGED <<dialogues, history, logged, next_id>>
       ELSE LET feedback == review_feedback(next_id, tasks[t].msg, review_text)
                recorded == record_feedback(dialogues, feedback)
                sent == send(history, tasks, t, feedback)
            IN  /\ ~Locked(tasks)
                /\ dialogues' = recorded.dialogues
                /\ history' = sent.history
                /\ tasks' = sent.tasks
                /\ logged' = sent.logged
                /\ next_id' = next_id + 1
    /\ UNCHANGED <<max_revisions, coordVars, driverVars, subscribers, llm_calls, type_subscribers>>

OrchestratorReviews ==
    \E t \in 1..Len(tasks), review_text \in ReviewTexts : ReviewReturns(t, review_text)

\* call_llm raises: the exception ends the handler (nothing catches it).
LlmRaises ==
    \E t \in 1..Len(tasks) :
        /\ tasks[t].pc = "call_llm"
        /\ tasks' = [tasks EXCEPT ![t].pc = "raised"]
        /\ UNCHANGED <<trackerVars, coordVars, driverVars, subscribers, history, next_id, llm_calls,
                     type_subscribers, logged>>

\* gather(*tasks, return_exceptions=True) returns once every handler has
\* returned or raised; publish, send_message and the caller then return.
GatherReturns ==
    \E t \in 1..Len(tasks) :
        /\ tasks[t].pc = "gather"
        /\ gather(tasks, t) # "gather"
        /\ tasks' = [tasks EXCEPT ![t].pc = gather(tasks, t)]
        /\ UNCHANGED <<trackerVars, coordVars, driverVars, subscribers, history, next_id, llm_calls,
                     type_subscribers, logged>>

SysNext ==
    \/ delegate_to_agent
    \/ SubActorReceives
    \/ OrchestratorReceives
    \/ SubActorResponds
    \/ OrchestratorReviews
    \/ LlmRaises
    \/ GatherReturns

SysSpec == SysInit /\ [][SysNext]_vars

(***************************************************************************)
(* CoordSpec: the coordinator alone on the bus.  The environment plays the *)
(* other actors: it sends the coordinator PlanResponses, CoverageReports,  *)
(* SequenceProposals and CodeArtifacts, and calls delegate_to_agent and    *)
(* analyze_dut.  A PlanResponse that answers a tracked dialogue comes from *)
(* that dialogue's responder, as it does in SysSpec.                       *)
(* (verifai/agents/orchestrator.py, verifai/codegen/project.py)            *)
(***************************************************************************)
\* The calls the environment makes: delegate_to_agent, analyze_dut and the
\* messages it sends.
MaxCoordCalls == 2

\* coverage_target's default in _handle_coverage_report and in TestbenchPlan
DefaultCoverageTarget == 95
PlanCoverageTarget == 95
\* a bin at 100.0 is covered
FullCoverage == 100

TestbenchPlan(name, dut_name, coverage_target) ==
    [kind |-> "TestbenchPlan", name |-> name, dut_name |-> dut_name,
     coverage_target |-> coverage_target]

DUTSpec(name, module_name) ==
    [kind |-> "DUTSpec", name |-> name, module_name |-> module_name]

\* module_name is the name unless one was given.
DutSpecs == {DUTSpec("alu", "alu"), DUTSpec("fifo", "fifo_top")}

\* Texts call_llm may return to analyze_dut, by what _extract_json and
\* TestbenchPlan(**plan_data) make of them:
\*   plan             an object with name, dut_name and coverage_target
\*   plan_no_target   an object with name and dut_name only
\*   not_json         json.loads raises
\*   not_object       a JSON array or scalar: ** raises TypeError
\*   missing_name     an object without "name": validation raises
\*   wrong_type       coverage_target is not a number: validation raises
PlanTexts ==
    {"plan", "plan_no_target", "not_json", "not_object", "missing_name", "wrong_type"}

ParsesAsPlan == {"plan", "plan_no_target"}

\* The plan a parsable text describes.
parsed_plan(text) ==
    TestbenchPlan(<<"chosen_tb">>, "chosen_dut",
                  IF text = "plan" THEN 90 ELSE PlanCoverageTarget)

\* a default plan named after the module
default_plan_of_module(dut_spec) ==
    TestbenchPlan(<<dut_spec.module_name, "_tb">>, dut_spec.module_name, PlanCoverageTarget)

\* The plan of the except branch: name=f"{dut_spec.name}_tb".
default_plan(dut_spec) ==
    TestbenchPlan(<<dut_spec.name, "_tb">>, dut_spec.module_name, PlanCoverageTarget)

\* The try/except of analyze_dut: every exception of the try block is caught.
plan_of(dut_spec, text) ==
    IF text \in ParsesAsPlan THEN parsed_plan(text) ELSE default_plan(dut_spec)

\* self._plan.coverage_target if self._plan else 95.0
coverage_target(p) == IF p # None THEN p.coverage_target ELSE DefaultCoverageTarget

\* a target that has to be exceeded
coverage_met_strictly(overall_coverage, p) == overall_coverage > coverage_target(p)

\* report.overall_coverage >= target
coverage_met(overall_coverage, p) == overall_coverage >= coverage_target(p)

\* bins at full coverage taken as targets too
target_bins_all(coverage_bins) ==
    [i \in 1..Len(coverage_bins) |-> coverage_bins[i].k]

\* [k for k, v in report.coverage_bins.items() if v < 100.0]; a dict is the
\* sequence of its items in insertion order.
target_bins(coverage_bins) ==
    LET below == SelectSeq(coverage_bins, LAMBDA item : item.v < FullCoverage)
    IN  [i \in 1..Len(below) |-> below[i].k]

\* a directive addressed to the sender of the report
coverage_directive_to_sender(id, report) ==
    CoverageDirective(id, Orchestrator, report.sender,
                      target_bins(report.coverage_bins), report.uncovered_scenarios)

\* The directive _handle_coverage_report builds.
coverage_directive(id, report) ==
    CoverageDirective(id, Orchestrator, "sequence_agent",
                      target_bins(report.coverage_bins), report.uncovered_scenarios)

\* an artifact without the proposal's code
sequence_artifact_empty(id, proposal) ==
    CodeArtifact(id, Orchestrator, "codegen",
                 <<"sequences/", proposal.sequence_name, ".sv">>, "", "sequence")

\* The artifact _handle_sequence_proposal builds:
\* filename=f"sequences/{proposal.sequence_name}.sv".
sequence_artifact(id, proposal) ==
    CodeArtifact(id, Orchestrator, "codegen",
                 <<"sequences/", proposal.sequence_name, ".sv">>,
                 proposal.sequence_code, "sequence")

\* a sink that registers nothing
add_file_noop(fs, relative_path, content) == fs

\* ProjectManager.add_file: self._files[relative_path] = content
add_file(fs, relative_path, content) ==
    [p \in DOMAIN fs \cup {relative_path} |->
        IF p = relative_path THEN content ELSE fs[p]]

\* The coordinator constructed on a fresh bus, tracker and project.
CoordInit ==
    /\ dialogues = <<>>
    /\ max_revisions \in SysRevisionLimits
    /\ log = <<>>
    /\ last = [op |-> "init", arg |-> None, pre |-> <<>>, ret |-> None]
    /\ subscribers = [c \in Channels |-> IF c = Orchestrator THEN <<c>> ELSE <<>>]
    /\ type_subscribers = <<>>
    /\ history = <<>>
    /\ logged = <<>>
    /\ tasks = <<>>
    /\ next_id = 1
    /\ llm_calls = 0
    /\ plan = None
    /\ artifacts = <<>>
    /\ files = <<>>

\* Coverage bins as the items of a dict.
CoverageBins ==
    {<<[k |-> "op_add", v |-> 100], [k |-> "op_sub", v |-> 80], [k |-> "overflow", v |-> 0]>>}

Scenarios == {<<"burst">>}

\* A correlation id no request carries.
UnknownCid == 99

\* The messages the environment may address to the coordinator.
CoordMessages(id) ==
    {PlanResponse(id, IF HasKey(dialogues, cid) THEN get_dialogue(dialogues, cid).responder
                      ELSE "env_agent",
                  Orchestrator, cid, code) :
        cid \in {NoCid, UnknownCid} \cup {dialogues[i].correlation_id : i \in 1..Len(dialogues)},
        code \in Codes}
    \cup {CoverageReport(id, "scoreboard_agent", Orchestrator, overall, bins, scenarios) :
            overall \in {89, 90, 94, 95}, bins \in CoverageBins, scenarios \in Scenarios}
    \cup {SequenceProposal(id, "sequence_agent", Orchestrator, "seq1", "code1"),
          CodeArtifact(id, "env_agent", Orchestrator, <<"env.sv">>, "code2", "env")}

Deliveries == {i \in 1..Len(tasks) : tasks[i].fn = "send"}

Analyses == {i \in 1..Len(tasks) : tasks[i].fn = "analyze_dut"}

CoordCalls == Cardinality(Delegations) + Cardinality(Deliveries) + Cardinality(Analyses)

\* The caller of the coordinator delegates a task.
Delegate ==
    /\ CoordCalls < MaxCoordCalls
    /\ delegate_to_agent

\* Another actor sends message (BaseAgent.send_message).
Sends(message) ==
    /\ ~Locked(tasks)
    /\ LET t == Len(tasks) + 1
           caller == Task("send", message.sender, message, "running", 0)
           sent == send(history, Append(tasks, caller), t, message)
       IN  /\ history' = sent.history
           /\ tasks' = sent.tasks
           /\ logged' = sent.logged
           /\ next_id' = next_id + 1
    /\ UNCHANGED <<trackerVars, coordVars, driverVars, subscribers, llm_calls, type_subscribers>>

\* Another actor sends the coordinator a message.
Deliver ==
    /\ CoordCalls < MaxCoordCalls
    /\ \E message \in CoordMessages(next_id) : Sends(message)

\* The coordinator's handler for a CoverageReport, up to its send_message
\* (OrchestratorAgent.on_message, _handle_coverage_report).
handle_coverage_report ==
    \E t \in 1..Len(tasks) :
        /\ tasks[t].pc = "ready"
        /\ tasks[t].self = Orchestrator
        /\ tasks[t].msg.kind = "CoverageReport"
        /\ IF coverage_met(tasks[t].msg.overall_coverage, plan)
           THEN /\ tasks' = [tasks EXCEPT ![t].pc = "done"]
                /\ UNCHANGED <<history, logged, next_id>>
           ELSE LET sent == send(history, tasks, t, coverage_directive(next_id, tasks[t].msg))
                IN  /\ ~Locked(tasks)
                    /\ history' = sent.history
                    /\ tasks' = sent.tasks
                    /\ logged' = sent.logged
                    /\ next_id' = next_id + 1
        /\ UNCHANGED <<trackerVars, coordVars, driverVars, subscribers, llm_calls, type_subscribers>>

\* The coordinator's handler for a SequenceProposal
\* (OrchestratorAgent.on_message, _handle_sequence_proposal).
handle_sequence_proposal ==
    \E t \in 1..Len(tasks) :
        /\ tasks[t].pc = "ready"
        /\ tasks[t].self = Orchestrator
        /\ tasks[t].msg.kind = "SequenceProposal"
        /\ LET artifact == sequence_artifact(next_id, tasks[t].msg)
           IN  /\ artifacts' = Append(artifacts, artifact)
               /\ files' = add_file(files, artifact.filename, artifact.content)
        /\ next_id' = next_id + 1
        /\ tasks' = [tasks EXCEPT ![t].pc = "done"]
        /\ UNCHANGED <<trackerVars, plan, driverVars, subscribers, history, llm_calls,
                     type_subscribers, logged>>

\* The coordinator's handler for a CodeArtifact (OrchestratorAgent.on_message).
on_code_artifact ==
    \E t \in 1..Len(tasks) :
        /\ tasks[t].pc = "ready"
        /\ tasks[t].self = Orchestrator
        /\ tasks[t].msg.kind = "CodeArtifact"
        /\ artifacts' = Append(artifacts, tasks[t].msg)
        /\ files' = add_file(files, tasks[t].msg.filename, tasks[t].msg.content)
        /\ tasks' = [tasks EXCEPT ![t].pc = "done"]
        /\ UNCHANGED <<trackerVars, plan, driverVars, subscribers, history, next_id, llm_calls,
                     type_subscribers, logged>>

\* analyze_dut up to its call_llm.
analyze_dut ==
    \E dut_spec \in DutSpecs :
        /\ CoordCalls < MaxCoordCalls
        /\ llm_calls < MaxLlmCalls
        /\ llm_calls' = llm_calls + 1
        /\ tasks' = Append(tasks, Task("analyze_dut", Orchestrator, dut_spec, "call_llm", 0))
        /\ UNCHANGED <<trackerVars, coordVars, driverVars, subscribers, history, next_id,
                     type_subscribers, logged>>

\* call_llm returns text to analyze_dut, which stores the plan and returns it.
AnalyzeReturns(t, text) ==
    /\ tasks[t].pc = "call_llm"
    /\ tasks[t].fn = "analyze_dut"
    /\ plan' = plan_of(tasks[t].msg, text)
    /\ last' = [op |-> "analyze_dut", arg |-> text, pre |-> plan,
                ret |-> plan_of(tasks[t].msg, text)]
    /\ tasks' = [tasks EXCEPT ![t].pc = "done"]
    /\ UNCHANGED <<trackerVars, artifacts, files, log, subscribers, history, next_id, llm_calls, type_subscribers, logged>>

AnalyzeDutReturns ==
    \E t \in 1..Len(tasks), text \in PlanTexts : AnalyzeReturns(t, text)

CoordNext ==
    \/ Delegate
    \/ Deliver
    \/ analyze_dut
    \/ AnalyzeDutReturns
    \/ OrchestratorReceives
    \/ handle_coverage_report
    \/ handle_sequence_proposal
    \/ on_code_artifact
    \/ OrchestratorReviews
    \/ LlmRaises
    \/ GatherReturns

CoordSpec == CoordInit /\ [][CoordNext]_vars

(***************************************************************************)
(* LoopSpec: the review cycles of several dialogues beside the coverage    *)
(* loop.  As in CoordSpec the coordinator is alone on the bus; the         *)
(* environment delegates, answers tracked requests as their responders and *)
(* reports coverage below the target.                                      *)
(***************************************************************************)
\* delegate_to_agent calls and messages sent to the coordinator.
MaxLoopCalls == 3

LoopCalls == Cardinality(Delegations) + Cardinality(Deliveries)

\* The answers to the tracked requests, and a report under the default target.
LoopMessages(id) ==
    {PlanResponse(id, dialogues[i].responder, Orchestrator, dialogues[i].correlation_id, code) :
        i \in 1..Len(dialogues), code \in Codes}
    \cup {CoverageReport(id, "scoreboard_agent", Orchestrator, 90, bins, scenarios) :
            bins \in CoverageBins, scenarios \in Scenarios}

LoopDelegate ==
    /\ LoopCalls < MaxLoopCalls
    /\ delegate_to_agent

LoopDeliver ==
    /\ LoopCalls < MaxLoopCalls
    /\ \E message \in LoopMessages(next_id) : Sends(message)

LoopNext ==
    \/ LoopDelegate
    \/ LoopDeliver
    \/ OrchestratorReceives
    \/ handle_coverage_report
    \/ OrchestratorReviews
    \/ LlmRaises
    \/ GatherReturns

LoopSpec == CoordInit /\ [][LoopNext]_vars

(***************************************************************************)
(* ActorSpec: the sub-actors alone on the bus.  The environment plays the  *)
(* coordinator: it sends PlanRequests, each with a spec payload, and       *)
(* ReviewFeedbacks.  uvm_agent announces the interface to sequence_agent   *)
(* before it answers a PlanRequest whose spec has transaction fields.      *)
(* (uvm_ai/agents/env_agent.py, uvm_agent_agent.py, sequence_agent.py)     *)
(***************************************************************************)
\* The PlanRequests and ReviewFeedbacks the environment sends.
MaxActorCalls == 2

\* A PlanRequest with its spec payload (spec: dict[str, Any]).
PlanRequestOf(id, sender, recipient, spec) ==
    [kind |-> "PlanRequest", id |-> id, sender |-> sender, recipient |-> recipient,
     correlation_id |-> NoCid, spec |-> spec]

InterfaceContract(id, sender, recipient, fields) ==
    [kind |-> "InterfaceContract", id |-> id, sender |-> sender, recipient |-> recipient,
     correlation_id |-> NoCid, fields |-> fields]

\* Spec payloads, by what UVMAgentAgent._handle_plan_request makes of them:
\*   no_fields     no "transaction_fields" key: no contract is built
\*   fields        "transaction_fields" is a list of dicts
\*   fields_text   "transaction_fields" is a string: InterfaceContract(...) raises
SpecPayloads == {"no_fields", "fields", "fields_text"}

\* "transaction_fields" in spec
has_transaction_fields(spec) == spec # "no_fields"

\* InterfaceContract validates fields as list[dict[str, Any]].
contract_raises(spec) == spec = "fields_text"

ActorTargets == {"env_agent", "uvm_agent"}

\* Each sub-actor subscribed to its own channel on a fresh bus.
ActorInit ==
    /\ dialogues = <<>>
    /\ max_revisions = 3
    /\ log = <<>>
    /\ last = [op |-> "init", arg |-> None, pre |-> <<>>, ret |-> None]
    /\ subscribers = [c \in Channels |-> IF c \in PlanActors THEN <<c>> ELSE <<>>]
    /\ type_subscribers = <<>>
    /\ history = <<>>
    /\ logged = <<>>
    /\ tasks = <<>>
    /\ next_id = 1
    /\ llm_calls = 0
    /\ plan = None
    /\ artifacts = <<>>
    /\ files = <<>>

ActorCalls == Cardinality({i \in 1..Len(tasks) : tasks[i].fn = "send"})

\* The ids of the PlanRequests published so far.
RequestIds == {history[i].id : i \in {j \in 1..Len(history) : history[j].kind = "PlanRequest"}}

\* The messages the environment may address to a sub-actor.
ActorMessages(id, recipient) ==
    {PlanRequestOf(id, Orchestrator, recipient, spec) : spec \in SpecPayloads}
    \cup {ReviewFeedback(id, Orchestrator, recipient, cid, approved) :
            cid \in RequestIds, approved \in BOOLEAN}

\* The coordinator's side sends a sub-actor a message (BaseAgent.send_message).
ActorDeliver ==
    /\ ActorCalls < MaxActorCalls
    /\ ~Locked(tasks)
    /\ \E recipient \in ActorTargets :
         \E message \in ActorMessages(next_id, recipient) :
            LET t == Len(tasks) + 1
                caller == Task("send", message.sender, message, "running", 0)
                sent == send(history, Append(tasks, caller), t, message)
            IN  /\ history' = sent.history
                /\ tasks' = sent.tasks
                /\ logged' = sent.logged
                /\ next_id' = next_id + 1
    /\ UNCHANGED <<trackerVars, coordVars, driverVars, subscribers, llm_calls, type_subscribers>>

\* call_llm returns to uvm_agent's handler of a PlanRequest: it builds and
\* sends the InterfaceContract when the spec has transaction fields, and
\* otherwise answers at once (UVMAgentAgent._handle_plan_request after call_llm).
UvmAgentGenerates ==
    \E t \in 1..Len(tasks), code \in Codes :
        /\ tasks[t].pc = "call_llm"
        /\ tasks[t].self = "uvm_agent"
        /\ tasks[t].msg.kind = "PlanRequest"
        /\ log' = Append(log, [op |-> "call_llm_returned", task |-> t])
        /\ LET request == tasks[t].msg
           IN  IF ~has_transaction_fields(request.spec)
               THEN LET sent == send(history, tasks, t,
                                     plan_response(next_id, tasks[t].self, request, code))
                    IN  /\ ~Locked(tasks)
                        /\ history' = sent.history
                        /\ tasks' = sent.tasks
                        /\ logged' = sent.logged
                        /\ next_id' = next_id + 1
               ELSE IF contract_raises(request.spec)
               THEN /\ tasks' = [tasks EXCEPT ![t].pc = "raised"]
                    /\ UNCHANGED <<history, logged, next_id>>
               ELSE LET contract == InterfaceContract(next_id, tasks[t].self,
                                                      "sequence_agent", request.spec)
                        sent == send(history, tasks, t, contract)
                    IN  /\ ~Locked(tasks)
                        /\ history' = sent.history
                        /\ tasks' = [sent.tasks EXCEPT ![t].pc = "send_contract"]
                        /\ logged' = sent.logged
                        /\ next_id' = next_id + 1
        /\ UNCHANGED <<trackerVars, coordVars, last, subscribers, llm_calls, type_subscribers>>

\* send_message(contract) returns to uvm_agent, which builds the PlanResponse
\* and sends it (UVMAgentAgent._handle_plan_request, lines 80-88).
UvmAgentResponds ==
    \E t \in 1..Len(tasks), code \in Codes :
        /\ tasks[t].pc = "send_contract"
        /\ gather(tasks, t) = "done"
        /\ ~Locked(tasks)
        /\ LET sent == send(history, tasks, t,
                            plan_response(next_id, tasks[t].self, tasks[t].msg, code))
           IN  /\ history' = sent.history
               /\ tasks' = sent.tasks
               /\ logged' = sent.logged
               /\ next_id' = next_id + 1
        /\ UNCHANGED <<trackerVars, coordVars, driverVars, subscribers, llm_calls, type_subscribers>>

ActorNext ==
    \/ ActorDeliver
    \/ SubActorReceives
    \/ SubActorResponds
    \/ UvmAgentGenerates
    \/ UvmAgentResponds
    \/ LlmRaises
    \/ GatherReturns

ActorSpec == ActorInit /\ [][ActorNext]_vars

(***************************************************************************)
(* BusSpec: the bus's public methods called in any order, by the           *)
(* environment or by a handler that is running (subscribe, publish and     *)
(* send note which: caller 0 is the environment).  A handler is any        *)
(* coroutine function: once started it may subscribe handlers, clear the   *)
(* history, raise, return, or publish a further message as its last        *)
(* statement.  log keeps one entry per call, in the order of the calls.    *)
(***************************************************************************)
Handlers == {"h1", "h2"}
BusChannels == SubActors
MsgTypes == {"PlanRequest", "PlanResponse", "AgentMessage"}

\* The messages a caller may build; id is fresh.
BusMessages(id) ==
    {PlanRequest(id, Orchestrator, "env_agent"),
     PlanResponse(id, "env_agent", "scoreboard_agent", NoCid, 1)}

BusInit ==
    /\ dialogues = <<>>
    /\ max_revisions = 3
    /\ log = <<>>
    /\ last = [op |-> "init", arg |-> None, pre |-> <<>>, ret |-> None]
    /\ subscribers = [c \in Channels |-> <<>>]
    /\ type_subscribers = <<>>
    /\ history = <<>>
    /\ logged = <<>>
    /\ tasks = <<>>
    /\ next_id = 1
    /\ llm_calls = 0
    /\ plan = None
    /\ artifacts = <<>>
    /\ files = <<>>

CallsOf(ops) == {k \in 1..Len(log) : log[k].op \in ops}

\* The calls counted against MaxBusCalls: all but the unsubscribe calls.
BudgetUsed == Len(log) - Cardinality(CallsOf({"unsubscribe"}))

\* A handler that has started and not yet ended, or the environment.
Callers ==
    {0} \cup {t \in 1..Len(tasks) :
                 tasks[t].fn = "_handle_message" /\ tasks[t].pc = "running"}

Subscribe ==
    \E caller \in Callers, channel \in BusChannels, callback \in Handlers :
        /\ BudgetUsed < MaxBusCalls
        /\ subscribers' = subscribe(subscribers, channel, callback)
        /\ logged' = Append(logged, LogRecord("subscribe", channel, None))
        /\ log' = Append(log, [op |-> "subscribe", caller |-> caller,
                                channel |-> channel, callback |-> callback])
        /\ UNCHANGED <<trackerVars, coordVars, last, type_subscribers, history, tasks,
                       next_id, llm_calls>>

SubscribeType ==
    \E msg_type \in MsgTypes, callback \in Handlers :
        /\ BudgetUsed < MaxBusCalls
        /\ type_subscribers' = subscribe_type(type_subscribers, msg_type, callback)
        /\ logged' = Append(logged, LogRecord("subscribe_type", msg_type, None))
        /\ log' = Append(log, [op |-> "subscribe_type",
                                msg_type |-> msg_type, callback |-> callback])
        /\ UNCHANGED <<trackerVars, coordVars, last, subscribers, history, tasks,
                       next_id, llm_calls>>

\* The caller's task: the handler itself, or a new coroutine of the environment.
CallerTasks(caller, op, message) ==
    IF caller = 0
    THEN Append(tasks, Task(op, "environment", message, "running", 0))
    ELSE tasks

CallerTask(caller) == IF caller = 0 THEN Len(tasks) + 1 ELSE caller

\* The entry of a publish or send: the call, the length of the history it
\* appended to, and the handler coroutines it created (first..last in tasks).
PublishEntry(op, caller, channel, message, out) ==
    [op |-> op, caller |-> caller, task |-> CallerTask(caller),
     channel |-> channel, message |-> message,
     pos |-> Len(history) + 1,
     first |-> Len(CallerTasks(caller, op, message)) + 1,
     last |-> Len(out.tasks)]

Publish ==
    \E caller \in Callers, channel \in BusChannels, message \in BusMessages(next_id) :
        /\ BudgetUsed < MaxBusCalls
        /\ ~Locked(tasks)
        /\ LET out == publish(history, CallerTasks(caller, "publish", message),
                              CallerTask(caller), channel, message)
           IN  /\ history' = out.history
               /\ tasks' = out.tasks
               /\ logged' = out.logged
               /\ log' = Append(log, PublishEntry("publish", caller, channel, message, out))
        /\ next_id' = next_id + 1
        /\ UNCHANGED <<trackerVars, coordVars, last, subscribers, type_subscribers, llm_calls>>

Send ==
    \E caller \in Callers, message \in BusMessages(next_id) :
        /\ BudgetUsed < MaxBusCalls
        /\ ~Locked(tasks)
        /\ LET out == send(history, CallerTasks(caller, "send", message),
                           CallerTask(caller), message)
           IN  /\ history' = out.history
               /\ tasks' = out.tasks
               /\ logged' = out.logged
               /\ log' = Append(log, PublishEntry("send", caller, message.recipient,
                                                  message, out))
        /\ next_id' = next_id + 1
        /\ UNCHANGED <<trackerVars, coordVars, last, subscribers, type_subscribers, llm_calls>>

ClearHistory ==
    /\ BudgetUsed < MaxBusCalls
    /\ history' = clear_history(history)
    /\ log' = Append(log, [op |-> "clear_history"])
    /\ UNCHANGED <<trackerVars, coordVars, last, subscribers, type_subscribers, logged,
                   tasks, next_id, llm_calls>>

\* The event loop starts a coroutine that gather scheduled.
HandlerStarts ==
    \E t \in 1..Len(tasks) :
        /\ tasks[t].pc = "ready"
        /\ tasks' = [tasks EXCEPT ![t].pc = "running"]
        /\ UNCHANGED <<trackerVars, coordVars, driverVars, subscribers, type_subscribers,
                       history, logged, next_id, llm_calls>>

HandlerReturns ==
    \E t \in 1..Len(tasks) :
        /\ tasks[t].fn = "_handle_message"
        /\ tasks[t].pc = "running"
        /\ tasks' = [tasks EXCEPT ![t].pc = "done"]
        /\ UNCHANGED <<trackerVars, coordVars, driverVars, subscribers, type_subscribers,
                       history, logged, next_id, llm_calls>>

HandlerRaises ==
    \E t \in 1..Len(tasks) :
        /\ tasks[t].fn = "_handle_message"
        /\ tasks[t].pc = "running"
        /\ tasks' = [tasks EXCEPT ![t].pc = "raised"]
        /\ UNCHANGED <<trackerVars, coordVars, driverVars, subscribers, type_subscribers,
                       history, logged, next_id, llm_calls>>

BusNext ==
    \/ Subscribe
    \/ SubscribeType
    \/ Publish
    \/ Send
    \/ ClearHistory
    \/ HandlerStarts
    \/ HandlerReturns
    \/ HandlerRaises
    \/ GatherReturns

BusSpec == BusInit /\ [][BusNext]_vars

(***************************************************************************)
(* SubsSpec: subscribe, unsubscribe and publish called in any order; the   *)
(* entry of an unsubscribe keeps the subscriptions before and after it.    *)
(***************************************************************************)
Unsubscribe ==
    \E channel \in BusChannels, callback \in Handlers :
        /\ Cardinality(CallsOf({"unsubscribe"})) < MaxUnsubscribes
        /\ subscribers' = unsubscribe(subscribers, channel, callback)
        /\ log' = Append(log, [op |-> "unsubscribe", channel |-> channel,
                                callback |-> callback, pre |-> subscribers,
                                post |-> unsubscribe(subscribers, channel, callback)])
        /\ UNCHANGED <<trackerVars, coordVars, last, type_subscribers, history, logged, tasks,
                       next_id, llm_calls>>

SubsNext ==
    \/ Subscribe
    \/ Unsubscribe
    \/ Publish
    \/ HandlerStarts
    \/ HandlerReturns
    \/ HandlerRaises
    \/ GatherReturns

SubsSpec == BusInit /\ [][SubsNext]_vars

(***************************************************************************)
(* Spec: the tracker's methods called in any order                         *)
(***************************************************************************)
ResponderOf(id) == IF id = 2 THEN "scoreboard_agent" ELSE "env_agent"

Requests == {PlanRequest(id, "orchestrator", ResponderOf(id)) : id \in Ids}

Responses ==
    {PlanResponse(10 + k, ResponderOf(c), "orchestrator", c, k) :
        c \in CorrIds, k \in Codes}

Feedbacks ==
    {ReviewFeedback(IF a THEN 21 ELSE 20, "orchestrator", ResponderOf(c), c, a) :
        c \in CorrIds, a \in BOOLEAN}

Call(op, arg, out) ==
    /\ Len(log) < MaxOps
    /\ dialogues' = out.dialogues
    /\ log' = Append(log, [op |-> op, arg |-> arg])
    /\ last' = [op |-> op, arg |-> arg, pre |-> dialogues, ret |-> out.ret]
    /\ UNCHANGED <<max_revisions, coordVars, sysVars>>

StartDialogue ==
    \E request \in Requests :
        Call("start_dialogue", request,
             start_dialogue(dialogues, max_revisions, request))

RecordResponse ==
    \E response \in Responses :
        Call("record_response", response, record_response(dialogues, response))

RecordFeedback ==
    \E feedback \in Feedbacks :
        Call("record_feedback", feedback, record_feedback(dialogues, feedback))

Next == StartDialogue \/ RecordResponse \/ RecordFeedback

Spec == Init /\ [][Next]_vars

(***************************************************************************)
(* Reading the last call and the call log                                  *)
(***************************************************************************)
IsRecordCall == last.op \in {"record_response", "record_feedback"}

\* The key the last call is about.
LastKey == IF last.op = "start_dialogue" THEN last.arg.id ELSE last.arg.correlation_id

PreEntry == get_dialogue(last.pre, LastKey)

PostEntry == get_dialogue(dialogues, LastKey)

Tag(call) ==
    IF call.op = "start_dialogue" THEN "start"
    ELSE IF call.op = "record_response" THEN "response"
    ELSE IF call.arg.approved THEN "approve" ELSE "reject"

About(call, c) ==
    IF call.op = "start_dialogue" THEN call.arg.id = c ELSE call.arg.correlation_id = c

\* The calls made so far that carry id c, as tags, in call order.
CallsFor(c) ==
    LET s == SelectSeq(log, LAMBDA call : About(call, c))
    IN  [i \in 1..Len(s) |-> Tag(s[i])]

(***************************************************************************)
(* Claims about the tracker, checked under Spec                            *)
(***************************************************************************)

\* C1: on a tracked dialogue that is not APPROVED or FAILED, record_feedback
\* with approved=false adds exactly 1 to revision_count and sets the state to
\* FAILED when the new count >= max_revisions, else to REVISION_REQUESTED; with
\* max_revisions=2, start/response/reject gives REVISION_REQUESTED with count 1
\* and a further reject gives FAILED with count 2.
C1_RejectStep ==
    /\ ( /\ last.op = "record_feedback"
         /\ ~last.arg.approved
         /\ HasKey(last.pre, LastKey)
         /\ PreEntry.state \notin Terminal )
       => /\ last.ret = PostEntry
          /\ PostEntry.revision_count = PreEntry.revision_count + 1
          /\ PostEntry.state =
                IF PostEntry.revision_count >= PreEntry.max_revisions
                THEN FAILED ELSE REVISION_REQUESTED
    /\ \A c \in Ids :
        max_revisions = 2 =>
          /\ CallsFor(c) = <<"start", "response", "reject">>
             => /\ get_dialogue(dialogues, c).state = REVISION_REQUESTED
                /\ get_dialogue(dialogues, c).revision_count = 1
          /\ CallsFor(c) = <<"start", "response", "reject", "reject">>
             => /\ get_dialogue(dialogues, c).state = FAILED
                /\ get_dialogue(dialogues, c).revision_count = 2

C1_Witness ==
    /\ max_revisions = 2
    /\ last.op = "record_feedback"
    /\ LastKey \in Ids
    /\ CallsFor(LastKey) = <<"start", "response", "reject", "reject">>
    /\ PreEntry.state = REVISION_REQUESTED
    /\ PostEntry.state = FAILED

\* C2: once an entry is APPROVED or FAILED, a record_response or
\* record_feedback carrying its correlation id leaves the entry's state as it was.
C2_TerminalStateFrozen ==
    ( /\ IsRecordCall
      /\ HasKey(last.pre, LastKey)
      /\ PreEntry.state \in Terminal )
    => PostEntry.state = PreEntry.state

\* C3: record_feedback on an entry that is already APPROVED or FAILED leaves
\* revision_count unchanged, whether approved is true or false.
C3_TerminalCountFrozen ==
    ( /\ last.op = "record_feedback"
      /\ HasKey(last.pre, LastKey)
      /\ PreEntry.state \in Terminal )
    => PostEntry.revision_count = PreEntry.revision_count

\* C6: record_feedback with approved=true on a tracked dialogue awaiting review
\* sets the state to APPROVED and keeps revision_count; straight after
\* start_dialogue and record_response the entry is APPROVED with count 0.
C6_ApproveStep ==
    /\ ( /\ last.op = "record_feedback"
         /\ last.arg.approved
         /\ HasKey(last.pre, LastKey)
         /\ PreEntry.state = AWAITING_REVIEW )
       => /\ PostEntry.state = APPROVED
          /\ PostEntry.revision_count = PreEntry.revision_count
    /\ \A c \in Ids :
        CallsFor(c) = <<"start", "response", "approve">>
        => /\ get_dialogue(dialogues, c).state = APPROVED
           /\ get_dialogue(dialogues, c).revision_count = 0

C6_Witness ==
    /\ last.op = "record_feedback"
    /\ last.arg.approved
    /\ LastKey \in Ids
    /\ CallsFor(LastKey) = <<"start", "response", "approve">>
    /\ PreEntry.state = AWAITING_REVIEW
    /\ PostEntry.state = APPROVED

\* C7: start_dialogue(request) for an id not yet tracked creates an entry keyed
\* by request.id: IN_PROGRESS, revision_count 0, no response, no feedback,
\* requester = request.sender, responder = request.recipient; and every entry
\* of the tracker has the max_revisions given at construction.
C7_StartCreates ==
    /\ (last.op = "start_dialogue" /\ ~HasKey(last.pre, LastKey))
       => /\ HasKey(dialogues, last.arg.id)
          /\ Len(dialogues) = Len(last.pre) + 1
          /\ last.ret = PostEntry
          /\ PostEntry.correlation_id = last.arg.id
          /\ PostEntry.state = IN_PROGRESS
          /\ PostEntry.revision_count = 0
          /\ PostEntry.response = None
          /\ PostEntry.feedback = None
          /\ PostEntry.request = last.arg
          /\ PostEntry.requester = last.arg.sender
          /\ PostEntry.responder = last.arg.recipient
    /\ \A i \in 1..Len(dialogues) : dialogues[i].max_revisions = max_revisions

C7_Witness ==
    /\ last.op = "start_dialogue"
    /\ ~HasKey(last.pre, LastKey)
    /\ Len(last.pre) = 1
    /\ max_revisions = 2
    /\ PostEntry.state = IN_PROGRESS

\* C8: start_dialogue with a request whose id is already tracked leaves the
\* existing entry (state, response, feedback, revision_count) unchanged.
C8_RestartKeepsEntry ==
    (last.op = "start_dialogue" /\ HasKey(last.pre, LastKey))
    => /\ PostEntry.state = PreEntry.state
       /\ PostEntry.response = PreEntry.response
       /\ PostEntry.feedback = PreEntry.feedback
       /\ PostEntry.revision_count = PreEntry.revision_count

\* C9: record_response and record_feedback with a correlation id that is
\* missing or not tracked return no entry, create no entry and change no
\* entry; a record_response before start_dialogue for the same id changes
\* nothing, and the start_dialogue that follows begins at IN_PROGRESS.
C9_UnknownIdNoOp ==
    /\ (IsRecordCall /\ (LastKey = NoCid \/ ~HasKey(last.pre, LastKey)))
       => /\ last.ret = None
          /\ dialogues = last.pre
    /\ \A c \in Ids :
        /\ CallsFor(c) = <<"response">> => ~HasKey(dialogues, c)
        /\ CallsFor(c) = <<"response", "start">>
           => /\ get_dialogue(dialogues, c).state = IN_PROGRESS
              /\ get_dialogue(dialogues, c).response = None
              /\ get_dialogue(dialogues, c).revision_count = 0

C9_Witness ==
    /\ last.op = "start_dialogue"
    /\ CallsFor(LastKey) = <<"response", "start">>
    /\ Len(last.pre) = 1
    /\ Len(log) = 4
    /\ log[2].op = "record_feedback"
    /\ log[2].arg.correlation_id = NoCid
    /\ PostEntry.state = IN_PROGRESS

\* C10: get_active_dialogues() returns exactly the tracked entries whose state
\* is neither APPROVED nor FAILED, each once; after two dialogues are started
\* and one of them is approved, exactly one is active.
C10_ActiveDialogues ==
    LET active == get_active_dialogues(dialogues)
    IN  /\ \A i \in 1..Len(dialogues) :
            Cardinality({j \in 1..Len(active) : active[j] = dialogues[i]})
                = IF dialogues[i].state \in Terminal THEN 0 ELSE 1
        /\ \A j \in 1..Len(active) : \E i \in 1..Len(dialogues) : active[j] = dialogues[i]
        /\ \A a, b \in Ids :
            ( /\ a # b
              /\ CallsFor(a) = <<"start", "response", "approve">>
              /\ CallsFor(b) = <<"start">> )
            => Len(active) = 1

C10_Witness ==
    /\ CallsFor(1) = <<"start", "response", "approve">>
    /\ CallsFor(2) = <<"start">>
    /\ Len(dialogues) = 2
    /\ Len(get_active_dialogues(dialogues)) = 1
    /\ get_active_dialogues(dialogues)[1].correlation_id = 2

(***************************************************************************)
(* Claims about the coordinator with the sub-actors, checked under SysSpec *)
(***************************************************************************)
\* The ReviewFeedback messages published so far for correlation id c.
FeedbackFor(c) ==
    {i \in 1..Len(history) :
        history[i].kind = "ReviewFeedback" /\ history[i].correlation_id = c}

RejectionsFor(c) == {i \in FeedbackFor(c) : ~history[i].approved}

NoLlmRaised == \A t \in 1..Len(tasks) : tasks[t].pc # "raised"

\* C4: once the tracker has put a dialogue in FAILED the coordinator publishes
\* no further ReviewFeedback for its correlation id, so at most max_revisions
\* ReviewFeedback messages with approved=false are ever published for one
\* correlation id.
C4_RejectionsBounded ==
    \A i \in 1..Len(dialogues) :
        Cardinality(RejectionsFor(dialogues[i].correlation_id)) <= max_revisions

\* C5: a dialogue started by delegate_to_agent to a subscribed sub-actor
\* reaches APPROVED or FAILED and stays there (no generation call raising):
\* stated here as its safety half, a dialogue in a terminal state is still in
\* a terminal state after every step.
C5_TerminalIsStable ==
    [][\A i \in 1..Len(dialogues) :
          ( /\ NoLlmRaised'
            /\ dialogues[i].responder \in SubActors
            /\ dialogues[i].state \in Terminal )
          => dialogues'[i].state \in Terminal]_vars

(***************************************************************************)
(* Reading the calls of the bus (BusSpec)                                  *)
(***************************************************************************)
PublishCalls == CallsOf({"publish", "send"})

Cleared == CallsOf({"clear_history"}) # {}

\* The handler coroutines created by publish call k, and those running cb.
HandlerTasks(k) == log[k].first .. log[k].last

Invocations(k, cb) ==
    Cardinality({u \in HandlerTasks(k) :
                    tasks[u].self = cb /\ tasks[u].msg = log[k].message})

\* The subscribe calls made before call k that registered cb on k's channel,
\* and the subscribe_type calls made before k whose type k's message is an
\* instance of.
ChannelRegistrations(k, cb) ==
    {j \in 1..(k - 1) :
        /\ log[j].op = "subscribe"
        /\ log[j].channel = log[k].channel
        /\ log[j].callback = cb}

TypeRegistrations(k, cb) ==
    {j \in 1..(k - 1) :
        /\ log[j].op = "subscribe_type"
        /\ log[j].msg_type \in {log[k].message.kind, "AgentMessage"}
        /\ log[j].callback = cb}

Returned(k) == tasks[log[k].task].pc = "done"

(***************************************************************************)
(* Claims about the bus                                                    *)
(***************************************************************************)
\* C11 as stated: for every publish of m on channel c, every handler subscribed
\* to c before the publish is invoked exactly once with m, and a handler
\* subscribed to c only after the publish started is never invoked with m.
C11_InvokedExactlyOnce ==
    \A k \in PublishCalls : \A cb \in Handlers :
        /\ ChannelRegistrations(k, cb) # {} => Invocations(k, cb) = 1
        /\ ChannelRegistrations(k, cb) = {} /\ TypeRegistrations(k, cb) = {}
               => Invocations(k, cb) = 0

\* C11 amended: a publish of m on channel c invokes a handler with m exactly
\* once per registration of it made before the publish (on c, or for a type m
\* is an instance of); so a handler registered once is invoked exactly once,
\* and a registration made after the publish started, by whomever, adds no
\* invocation with m.
C11_InvokedOncePerRegistration ==
    \A k \in PublishCalls : \A cb \in Handlers :
        Invocations(k, cb) =
            Cardinality(ChannelRegistrations(k, cb)) + Cardinality(TypeRegistrations(k, cb))

\* A publish has returned after invoking a handler once, and one of its
\* handlers subscribed another handler to its channel meanwhile, which was
\* not invoked.
C11_Witness ==
    \E k \in PublishCalls : \E j \in (k + 1)..Len(log) :
        /\ Returned(k)
        /\ log[j].op = "subscribe"
        /\ log[j].channel = log[k].channel
        /\ log[j].caller \in HandlerTasks(k)
        /\ Invocations(k, log[j].callback) = 0
        /\ \E cb \in Handlers :
              Cardinality(ChannelRegistrations(k, cb)) = 1 /\ Invocations(k, cb) = 1

\* The messages of the publish and send calls, in the order of the calls.
PublishedMessages ==
    LET calls == SelectSeq(log, LAMBDA e : e.op \in {"publish", "send"})
    IN  [i \in 1..Len(calls) |-> calls[i].message]

IsPrefix(a, b) == Len(a) <= Len(b) /\ a = SubSeq(b, 1, Len(a))

\* C12: after N publish calls have made their append, however the publishers
\* interleave and whether their handlers return, raise or publish further
\* messages, the history has length N and lists the published messages once
\* each, in the order of the appends (clear_history not having been called).
C12_HistoryListsPublishes ==
    ~Cleared =>
        /\ Len(history) = Cardinality(PublishCalls)
        /\ history = PublishedMessages

\* Two publishes have appended, the second made by a handler of the first
\* while the first had not returned, and a handler of the second raised.
C12_Witness ==
    /\ ~Cleared
    /\ Len(history) = 2
    /\ \E k1 \in PublishCalls, k2 \in PublishCalls :
          /\ k1 < k2
          /\ log[k2].caller \in HandlerTasks(k1)
          /\ ~Returned(k1)
          /\ \E u \in HandlerTasks(k2) : tasks[u].pc = "raised"

\* C13: the history is append-only over any sequence of calls of the bus's
\* public methods: the history seen earlier is a prefix of the history seen
\* later.
C13_HistoryAppendOnly == [][IsPrefix(history, history')]_vars

\* C14: when a handler of a publish raises, the publish does not raise, and
\* it returns normally once every other handler of that publish has been
\* run to its end.
C14_FailureIsolated ==
    \A k \in PublishCalls :
        /\ tasks[log[k].task].pc \in {"gather", "done"}
        /\ (\E u \in HandlerTasks(k) : tasks[u].pc = "raised") /\ Returned(k)
               => \A u \in HandlerTasks(k) : Finished(tasks[u])

\* A publish has returned normally with one handler that raised and another
\* that returned.
C14_Witness ==
    \E k \in PublishCalls :
        /\ Returned(k)
        /\ \E u \in HandlerTasks(k) : tasks[u].pc = "raised"
        /\ \E u \in HandlerTasks(k) : tasks[u].pc = "done"

\* The records of the bus's logger that are not debug records.
FailureReports == {i \in 1..Len(logged) : logged[i].level # "debug"}

RaisedHandlers(k) == {u \in HandlerTasks(k) : tasks[u].pc = "raised"}

\* C15: by the time a publish returns, the bus has reported to its logger
\* every handler of that publish that raised.
C15_FailuresReported ==
    \A k \in PublishCalls :
        Returned(k) => Cardinality(FailureReports) >= Cardinality(RaisedHandlers(k))

\* C16: within a publish the message is appended to the history before any
\* of its handlers starts: while a handler of the publish has started, the
\* message stands in the history where the publish appended it
\* (clear_history not having been called).
C16_AppendedBeforeHandlers ==
    \A k \in PublishCalls : \A u \in HandlerTasks(k) :
        tasks[u].pc # "ready" /\ ~Cleared =>
            /\ log[k].pos <= Len(history)
            /\ history[log[k].pos] = tasks[u].msg

\* A handler is running for a message that is in the history.
C16_Witness ==
    \E k \in PublishCalls : \E u \in HandlerTasks(k) :
        /\ tasks[u].pc = "running"
        /\ ~Cleared
        /\ history[log[k].pos] = tasks[u].msg

\* u was created, directly or through further publishes, by task t.
RECURSIVE Descendant(_, _)
Descendant(u, t) ==
    /\ tasks[u].parent # 0
    /\ \/ tasks[u].parent = t
       \/ Descendant(tasks[u].parent, t)

\* C17: a publish returns only after every handler it invoked has returned
\* or raised, the handlers of the publishes those handlers awaited included.
C17_ReturnsAfterHandlers ==
    \A k \in PublishCalls :
        Returned(k) =>
            \A u \in 1..Len(tasks) : Descendant(u, log[k].task) => Finished(tasks[u])

\* A publish has returned whose handler awaited a further publish with a
\* handler of its own.
C17_Witness ==
    \E k1 \in PublishCalls, k2 \in PublishCalls :
        /\ Returned(k1)
        /\ log[k2].caller \in HandlerTasks(k1)
        /\ HandlerTasks(k2) # {}

\* The subscribe calls made before call k that registered cb on the channel
\* named by the recipient of k's message.
RecipientRegistrations(k, cb) ==
    {j \in 1..(k - 1) :
        /\ log[j].op = "subscribe"
        /\ log[j].channel = log[k].message.recipient
        /\ log[j].callback = cb}

\* C18: send(m) does what publish(m.recipient, m) does: it appends m and
\* invokes the handlers of channel m.recipient (once per registration), and no
\* handler for being subscribed to another channel.
C18_SendRoutesToRecipient ==
    \A k \in CallsOf({"send"}) :
        /\ ~Cleared => log[k].pos <= Len(history) /\ history[log[k].pos] = log[k].message
        /\ \A cb \in Handlers :
              Invocations(k, cb) =
                  Cardinality(RecipientRegistrations(k, cb))
                      + Cardinality(TypeRegistrations(k, cb))

\* A send has invoked the handler of the recipient's channel and not the
\* handler subscribed to another channel.
C18_Witness ==
    \E k \in CallsOf({"send"}) : \E cb1 \in Handlers, cb2 \in Handlers :
        /\ RecipientRegistrations(k, cb1) # {} /\ Invocations(k, cb1) = 1
        /\ RecipientRegistrations(k, cb2) = {} /\ Invocations(k, cb2) = 0
        /\ \E j \in 1..(k - 1) : log[j].op = "subscribe" /\ log[j].callback = cb2

Names == Channels

Concerns(m, x) == m.sender = x \/ m.recipient = x

PositionOf(m) == CHOOSE j \in 1..Len(history) : history[j] = m

\* C19: get_history_for(x) returns exactly the messages of the history whose
\* sender or recipient is x, in history order, whatever channel they were
\* published on.
C19_HistoryForAgent ==
    \A x \in Names :
        LET r == get_history_for(history, x)
        IN  /\ \A i \in 1..Len(r) :
                  Concerns(r[i], x) /\ \E j \in 1..Len(history) : history[j] = r[i]
            /\ Len(r) = Cardinality({j \in 1..Len(history) : Concerns(history[j], x)})
            /\ \A i1 \in 1..Len(r), i2 \in 1..Len(r) :
                  i1 < i2 => PositionOf(r[i1]) < PositionOf(r[i2])

\* The history holds a message sent by env_agent and one received by it,
\* neither published on its channel, and a message that does not concern
\* scoreboard_agent.
C19_Witness ==
    /\ Len(get_history_for(history, "env_agent")) = 2
    /\ Len(get_history_for(history, "scoreboard_agent")) = 1
    /\ \E k1 \in PublishCalls, k2 \in PublishCalls :
          /\ k1 # k2
          /\ log[k1].message.sender = "env_agent"
          /\ log[k2].message.recipient = "env_agent"
          /\ log[k1].channel # "env_agent"
          /\ log[k2].channel # "env_agent"

ConcreteTypes == MsgTypes \ {"AgentMessage"}

\* The subscribe_type calls made before call k that registered cb for type K.
KindRegistrations(k, cb, K) ==
    {j \in 1..(k - 1) :
        /\ log[j].op = "subscribe_type"
        /\ log[j].msg_type = K
        /\ log[j].callback = cb}

\* C20: a handler registered with subscribe_type for a concrete message
\* kind K is invoked for every later published message of kind K, on any
\* channel, and through that registration for no message of another kind.
C20_TypeSubscription ==
    \A k \in PublishCalls : \A cb \in Handlers : \A K \in ConcreteTypes :
        /\ log[k].message.kind = K
              => Invocations(k, cb) >= Cardinality(KindRegistrations(k, cb, K))
        /\ (/\ log[k].message.kind # K
            /\ ChannelRegistrations(k, cb) = {}
            /\ KindRegistrations(k, cb, log[k].message.kind) = {}
            /\ KindRegistrations(k, cb, "AgentMessage") = {})
              => Invocations(k, cb) = 0

\* A handler registered for PlanRequest has been invoked for a PlanRequest
\* and not for a PlanResponse published later.
C20_Witness ==
    \E cb \in Handlers : \E k1 \in PublishCalls, k2 \in PublishCalls :
        /\ KindRegistrations(k1, cb, "PlanRequest") # {}
        /\ log[k1].message.kind = "PlanRequest" /\ Invocations(k1, cb) = 1
        /\ KindRegistrations(k2, cb, "PlanRequest") # {}
        /\ log[k2].message.kind = "PlanResponse" /\ Invocations(k2, cb) = 0

(***************************************************************************)
(* Claims about unsubscribe (SubsSpec)                                     *)
(***************************************************************************)
\* Call j unsubscribed a handler from the channel of publish k, and nobody
\* subscribed that handler to the channel again before k.
UnsubscribedBefore(j, k) ==
    /\ j < k
    /\ log[j].op = "unsubscribe"
    /\ log[j].channel = log[k].channel
    /\ \A i \in (j + 1)..(k - 1) :
          ~(/\ log[i].op = "subscribe"
            /\ log[i].channel = log[j].channel
            /\ log[i].callback = log[j].callback)

\* C21: after unsubscribe(channel, handler) a later publish on the channel
\* does not invoke the handler through a channel subscription, and an
\* unsubscribe of a handler that is not registered on the channel changes no
\* subscription.
C21_UnsubscribeStopsDelivery ==
    /\ \A k \in PublishCalls : \A j \in 1..(k - 1) :
          UnsubscribedBefore(j, k) => Invocations(k, log[j].callback) = 0
    /\ \A j \in CallsOf({"unsubscribe"}) :
          (\A i \in 1..Len(log[j].pre[log[j].channel]) :
                log[j].pre[log[j].channel][i] # log[j].callback)
              => log[j].post = log[j].pre

(***************************************************************************)
(* Claims about the coordinator                                            *)
(***************************************************************************)
\* C22: delegate_to_agent registers the dialogue before it publishes the
\* request: a handler that has the PlanRequest finds an entry for request.id,
\* in state IN_PROGRESS until the handler starts, and every PlanResponse
\* published has a dialogue for its correlation id.
C22_RegisteredBeforePublished ==
    /\ \A t \in 1..Len(tasks) :
          tasks[t].fn = "_handle_message" /\ tasks[t].msg.kind = "PlanRequest" =>
              /\ HasKey(dialogues, tasks[t].msg.id)
              /\ tasks[t].pc = "ready" =>
                    get_dialogue(dialogues, tasks[t].msg.id).state = IN_PROGRESS
    /\ \A i \in 1..Len(history) :
          history[i].kind = "PlanResponse" =>
              HasKey(dialogues, history[i].correlation_id)

\* A handler is about to receive a PlanRequest whose dialogue is IN_PROGRESS
\* while a PlanResponse to another request has been published.
C22_Witness ==
    /\ \E t \in 1..Len(tasks) :
          /\ tasks[t].fn = "_handle_message"
          /\ tasks[t].msg.kind = "PlanRequest"
          /\ tasks[t].pc = "ready"
          /\ get_dialogue(dialogues, tasks[t].msg.id).state = IN_PROGRESS
    /\ \E i \in 1..Len(history) :
          /\ history[i].kind = "PlanResponse"
          /\ HasKey(dialogues, history[i].correlation_id)

\* The coordinator's handler t takes its first step (in CoordSpec and SysSpec a
\* handler leaves "ready" by that step only).
Receives(t) ==
    /\ t \in 1..Len(tasks)
    /\ tasks[t].self = Orchestrator
    /\ tasks[t].pc = "ready"
    /\ tasks'[t].pc # "ready"

\* C23: when the coordinator receives a PlanResponse whose correlation_id has
\* no tracked dialogue, its handler returns at once: no generation call is
\* made, nothing is published (so no ReviewFeedback), and the tracker and the
\* artifact list are unchanged.
C23_UntrackedResponseDropped ==
    [][\A t \in 1..Len(tasks) :
          (/\ Receives(t)
           /\ tasks[t].msg.kind = "PlanResponse"
           /\ ~HasKey(dialogues, tasks[t].msg.correlation_id))
          => /\ tasks'[t].pc = "done"
             /\ llm_calls' = llm_calls
             /\ history' = history
             /\ dialogues' = dialogues
             /\ artifacts' = artifacts]_vars

C23_Witness ==
    \E t \in 1..Len(tasks) :
        /\ tasks[t].self = Orchestrator
        /\ tasks[t].pc = "done"
        /\ tasks[t].msg.kind = "PlanResponse"
        /\ tasks[t].msg.correlation_id = UnknownCid
        /\ dialogues # <<>>

\* The message a step appended to the history, when it appended exactly one.
Published ==
    IF Len(history') = Len(history) + 1 /\ SubSeq(history', 1, Len(history)) = history
    THEN history'[Len(history')] ELSE None

\* C24: for each PlanResponse with a tracked correlation id whose review call
\* returns, the coordinator publishes exactly one ReviewFeedback with the
\* response's correlation_id, addressed to the responder of the tracked
\* dialogue, and the tracker holds that feedback when it is published.
C24_OneFeedbackPerReview ==
    [][\A t \in 1..Len(tasks), text \in ReviewTexts :
          ReviewReturns(t, text)
          => LET cid == tasks[t].msg.correlation_id
             IN  /\ Published.kind = "ReviewFeedback"
                 /\ Published.correlation_id = cid
                 /\ Published.recipient = get_dialogue(dialogues, cid).responder
                 /\ get_dialogue(dialogues', cid).feedback = Published]_vars

\* C25: for every review text that is not a well-formed
\* approval/issues/suggestions record, the coordinator records and publishes a
\* ReviewFeedback with approved = true, and a dialogue that was in
\* AWAITING_REVIEW is APPROVED.
C25_MalformedReviewApproved ==
    [][\A t \in 1..Len(tasks), text \in ReviewTexts \ WellFormedReviews :
          (/\ ReviewReturns(t, text)
           /\ get_dialogue(dialogues, tasks[t].msg.correlation_id).state = AWAITING_REVIEW)
          => LET cid == tasks[t].msg.correlation_id
             IN  /\ Published.kind = "ReviewFeedback"
                 /\ Published.approved
                 /\ get_dialogue(dialogues', cid).feedback = Published
                 /\ get_dialogue(dialogues', cid).state = APPROVED]_vars

\* C26: analyze_dut makes exactly one generation call and, whatever text that
\* call returns, stores and returns a plan that is not None; when the text does
\* not parse as a plan the plan is named <dut name>_tb and analyze_dut returns
\* normally.
C26_AnalyzeYieldsPlan ==
    [][/\ \A t \in 1..Len(tasks), text \in PlanTexts :
            AnalyzeReturns(t, text)
            => /\ plan' # None
               /\ last'.ret = plan'
               /\ tasks'[t].pc = "done"
               /\ llm_calls' = llm_calls
               /\ text \notin ParsesAsPlan
                    => plan'.name = <<tasks[t].msg.name, "_tb">>
       /\ (Len(tasks') > Len(tasks) /\ tasks'[Len(tasks')].fn = "analyze_dut")
            => llm_calls' = llm_calls + 1]_vars

C26_Witness ==
    /\ last.op = "analyze_dut"
    /\ last.arg = "not_json"
    /\ last.ret = plan
    /\ plan.name = <<"fifo", "_tb">>
    /\ plan.dut_name = "fifo_top"

\* The coordinator's handlers that have returned.
ReturnedHandlers ==
    {t \in 1..Len(tasks) : tasks[t].self = Orchestrator /\ tasks[t].pc = "done"}

Directives == {i \in 1..Len(history) : history[i].kind = "CoverageDirective"}

\* C27: on a CoverageReport the coordinator publishes exactly one message, a
\* CoverageDirective addressed to sequence_agent, when overall_coverage is
\* strictly below the plan's coverage target (95 when there is no plan), and
\* publishes nothing when overall_coverage equals or exceeds the target.
C27_DirectiveIffBelowTarget ==
    [][\A t \in 1..Len(tasks) :
          (Receives(t) /\ tasks[t].msg.kind = "CoverageReport")
          => LET target == IF plan = None THEN DefaultCoverageTarget
                           ELSE plan.coverage_target
             IN  IF tasks[t].msg.overall_coverage < target
                 THEN /\ Published.kind = "CoverageDirective"
                      /\ Published.sender = Orchestrator
                      /\ Published.recipient = "sequence_agent"
                 ELSE /\ history' = history
                      /\ tasks'[t].pc = "done"]_vars

\* A report just under the default target was answered with a directive and a
\* report exactly at it was not.
C27_Witness ==
    /\ plan = None
    /\ Cardinality(Directives) = 1
    /\ \E t \in 1..Len(tasks) :
          /\ tasks[t].self = Orchestrator
          /\ tasks[t].msg.kind = "CoverageReport"
          /\ tasks[t].msg.overall_coverage = 94
          /\ tasks[t].pc = "done"
    /\ \E t \in ReturnedHandlers :
          /\ tasks[t].msg.kind = "CoverageReport"
          /\ tasks[t].msg.overall_coverage = DefaultCoverageTarget

\* C28: the CoverageDirective published for a CoverageReport names in
\* target_bins exactly the bins of the report whose coverage is strictly below
\* 100, each once, and carries the report's uncovered_scenarios as
\* target_scenarios.
C28_DirectiveTargets ==
    [][\A t \in 1..Len(tasks) :
          (/\ Receives(t)
           /\ tasks[t].msg.kind = "CoverageReport"
           /\ Published.kind = "CoverageDirective")
          => LET bins == tasks[t].msg.coverage_bins
                 below == {bins[i].k : i \in {j \in 1..Len(bins) : bins[j].v < FullCoverage}}
                 named == Published.target_bins
             IN  /\ {named[i] : i \in 1..Len(named)} = below
                 /\ Len(named) = Cardinality(below)
                 /\ Published.target_scenarios = tasks[t].msg.uncovered_scenarios]_vars

C28_Witness ==
    \E i \in Directives :
        /\ history[i].target_bins = <<"op_sub", "overflow">>
        /\ history[i].target_scenarios = <<"burst">>
        /\ \E j \in 1..(i - 1) :
              /\ history[j].kind = "CoverageReport"
              /\ \E b \in 1..Len(history[j].coverage_bins) :
                    history[j].coverage_bins[b] = [k |-> "op_add", v |-> FullCoverage]

C30_ArtifactsRegistered ==
    \A i \in 1..Len(artifacts) : artifacts[i].filename \in DOMAIN files

C30_Witness ==
    /\ \E i \in 1..Len(artifacts) : artifacts[i].sender = Orchestrator
    /\ \E i \in 1..Len(artifacts) : artifacts[i].sender # Orchestrator
    /\ \A t \in 1..Len(tasks) : tasks[t].self = Orchestrator => tasks[t].pc = "done"

(***************************************************************************)
(* Claims about the sub-actors                                             *)
(***************************************************************************)
\* The handlers of a PlanRequest.
RequestHandlers ==
    {t \in 1..Len(tasks) :
        /\ tasks[t].fn = "_handle_message"
        /\ tasks[t].self \in PlanActors
        /\ tasks[t].msg.kind = "PlanRequest"}

\* The step in which the generation call of handler t returns: the handler
\* goes on to send, or uvm_agent notes the return of the call.
GenerationReturns(t) ==
    /\ tasks[t].pc = "call_llm"
    /\ \/ tasks'[t].pc \in {"gather", "done", "send_contract"}
       \/ log' = Append(log, [op |-> "call_llm_returned", task |-> t])

\* The step publishes handler t's answer to the message it handles.
Answers(t, cid) ==
    /\ Published.kind = "PlanResponse"
    /\ Published.sender = tasks[t].self
    /\ Published.recipient = tasks[t].msg.sender
    /\ Published.correlation_id = cid
    /\ tasks'[t].pc \in {"gather", "done"}

\* C31: when the generation call of a sub-actor's handler of a PlanRequest
\* returns, the handler publishes one PlanResponse whose correlation_id is
\* the request's id and whose recipient is the request's sender, at once or
\* right after the InterfaceContract it sends first.
C31_RequestAnswered ==
    [][\A t \in RequestHandlers :
          /\ GenerationReturns(t)
               => \/ Answers(t, tasks[t].msg.id)
                  \/ tasks'[t].pc = "send_contract" /\ Published.kind = "InterfaceContract"
          /\ (tasks[t].pc = "send_contract" /\ tasks'[t].pc # "send_contract")
               => Answers(t, tasks[t].msg.id)]_vars

\* The sub-actors' handlers of a ReviewFeedback.
FeedbackHandlers ==
    {t \in 1..Len(tasks) :
        /\ tasks[t].fn = "_handle_message"
        /\ tasks[t].self \in PlanActors
        /\ tasks[t].msg.kind = "ReviewFeedback"}

\* Handler t starts and returns without publishing.
ReturnsSilently(t) ==
    (tasks[t].pc = "ready" /\ tasks'[t].pc # "ready")
    => (tasks'[t].pc = "done" /\ history' = history)

\* C32 as stated: a sub-actor's handler of a ReviewFeedback with
\* approved = false does not leave its generation call without publishing one
\* PlanResponse with the feedback's correlation_id, addressed to the
\* feedback's sender; a handler of a ReviewFeedback with approved = true
\* returns without publishing.
C32_RejectionAnswered ==
    [][\A t \in FeedbackHandlers :
          IF tasks[t].msg.approved
          THEN ReturnsSilently(t)
          ELSE (tasks[t].pc = "call_llm" /\ tasks'[t].pc # "call_llm")
               => Answers(t, tasks[t].msg.correlation_id)]_vars

\* C32, amended: when the generation call of a sub-actor's handler of a
\* ReviewFeedback with approved = false returns, the handler publishes one
\* PlanResponse with the feedback's correlation_id, addressed to the
\* feedback's sender (when the call raises it publishes nothing); a handler
\* of a ReviewFeedback with approved = true returns without publishing.
C32_RejectionAnsweredOnReturn ==
    [][\A t \in FeedbackHandlers :
          IF tasks[t].msg.approved
          THEN ReturnsSilently(t)
          ELSE /\ GenerationReturns(t) => Answers(t, tasks[t].msg.correlation_id)
               /\ (tasks[t].pc = "call_llm" /\ tasks'[t].pc = "raised")
                    => history' = history]_vars

\* A rejection was answered with a revised response and the approval that
\* followed was taken silently.
C32_Witness ==
    /\ \E t \in FeedbackHandlers :
          /\ ~tasks[t].msg.approved
          /\ tasks[t].pc = "done"
          /\ \E i \in 1..Len(history) :
                /\ history[i].kind = "PlanResponse"
                /\ history[i].id > tasks[t].msg.id
                /\ history[i].correlation_id = tasks[t].msg.correlation_id
                /\ history[i].recipient = tasks[t].msg.sender
    /\ \E t \in FeedbackHandlers : tasks[t].msg.approved /\ tasks[t].pc = "done"

\* A handler is suspended in a generation call.
Stalled(t) == tasks[t].fn = "_handle_message" /\ tasks[t].pc = "call_llm"

\* C33: while a handler is suspended in a generation call, the bus is free:
\* a further delegate_to_agent can publish its request, and a sub-actor whose
\* own call returns can publish its response, whatever the suspended handler
\* does.
C33_StallDoesNotBlock ==
    \A t \in 1..Len(tasks) :
        Stalled(t)
        => /\ Cardinality(Delegations) < MaxDelegations => ENABLED delegate_to_agent
           /\ (\E u \in 1..Len(tasks) : Stalled(u) /\ tasks[u].self \in SubActors)
                => ENABLED SubActorResponds

\* One handler is still suspended in its generation call while a dialogue
\* delegated after that handler's message was published has been approved and
\* all its handlers have returned.
C33_Witness ==
    \E t \in 1..Len(tasks), i \in 1..Len(dialogues) :
        /\ Stalled(t)
        /\ dialogues[i].correlation_id > tasks[t].msg.id
        /\ dialogues[i].state = APPROVED
        /\ tasks[t].msg.id # dialogues[i].correlation_id
        /\ tasks[t].msg.correlation_id # dialogues[i].correlation_id
        /\ \A u \in 1..Len(tasks) :
              (tasks[u].msg.id = dialogues[i].correlation_id
                 \/ tasks[u].msg.correlation_id = dialogues[i].correlation_id)
              => tasks[u].pc = "done"

(***************************************************************************)
(* Claims about several dialogues (LoopSpec, SysSpec, Spec)                *)
(***************************************************************************)
\* The coordinator's handler t of a PlanResponse takes a step: it records the
\* response (from "ready") or its review call ends (from "call_llm").
TrackerStep(t) ==
    /\ tasks[t].self = Orchestrator
    /\ tasks[t].msg.kind = "PlanResponse"
    /\ tasks[t].pc \in {"ready", "call_llm"}
    /\ tasks'[t].pc # tasks[t].pc

Siblings(cid) == {i \in 1..Len(dialogues) : dialogues[i].correlation_id # cid}

\* C34: record_response and record_feedback for correlation id A leave the
\* entry of every other id B as it was, field for field; in particular the step
\* that moves a dialogue to FAILED changes no sibling, and a CoverageReport
\* received while some dialogue is FAILED is answered as any other: with a
\* CoverageDirective when its coverage is below the target.
C34_DialoguesIndependent ==
    [][/\ \A t \in 1..Len(tasks) :
             TrackerStep(t)
             => \A i \in Siblings(tasks[t].msg.correlation_id) :
                   /\ i <= Len(dialogues')
                   /\ dialogues'[i] = dialogues[i]
       /\ \A i \in 1..Len(dialogues) :
             (/\ i <= Len(dialogues')
              /\ dialogues[i].state # FAILED
              /\ dialogues'[i].state = FAILED)
             => \A j \in Siblings(dialogues[i].correlation_id) :
                   /\ dialogues'[j].state = dialogues[j].state
                   /\ dialogues'[j].revision_count = dialogues[j].revision_count
       /\ \A t \in 1..Len(tasks) :
             (/\ Receives(t)
              /\ tasks[t].msg.kind = "CoverageReport"
              /\ \E i \in 1..Len(dialogues) : dialogues[i].state = FAILED)
             => IF coverage_met(tasks[t].msg.overall_coverage, plan)
                THEN history' = history
                ELSE Published.kind = "CoverageDirective"]_vars

\* The second of two dialogues failed while the first was still waiting for
\* its response; the first is as start_dialogue left it.
C34_Witness ==
    /\ Len(dialogues) = 2
    /\ dialogues[2].state = FAILED
    /\ dialogues[2].revision_count = 1
    /\ dialogues[1] = DialogueEntry(dialogues[1].request, max_revisions)

\* A report was answered with a directive after a dialogue had failed.
C34_DirectiveAfterFailure ==
    \E i \in 1..Len(dialogues), k \in Directives, f \in 1..Len(history) :
        /\ dialogues[i].state = FAILED
        /\ history[f].kind = "ReviewFeedback"
        /\ history[f].correlation_id = dialogues[i].correlation_id
        /\ ~history[f].approved
        /\ f < k

\* The positions in the history of the PlanRequest whose id is cid.
RequestsOf(cid) ==
    {j \in 1..Len(history) : history[j].kind = "PlanRequest" /\ history[j].id = cid}

\* C35: every PlanResponse and every ReviewFeedback in the history carries the
\* id of a PlanRequest that stands earlier in the history and that has an entry
\* in the tracker.
C35_RepliesCorrelated ==
    \A k \in 1..Len(history) :
        history[k].kind \in {"PlanResponse", "ReviewFeedback"}
        => /\ \E j \in RequestsOf(history[k].correlation_id) : j < k
           /\ HasKey(dialogues, history[k].correlation_id)

\* A request, its response, a rejecting feedback and the revised response
\* stand in the history in this order, all under the request's id.
C35_Witness ==
    \E j, k, f, r \in 1..Len(history) :
        /\ j < k /\ k < f /\ f < r
        /\ history[j].kind = "PlanRequest"
        /\ history[k].kind = "PlanResponse"
        /\ history[f].kind = "ReviewFeedback"
        /\ ~history[f].approved
        /\ history[r].kind = "PlanResponse"
        /\ history[k].correlation_id = history[j].id
        /\ history[f].correlation_id = history[j].id
        /\ history[r].correlation_id = history[j].id

\* C36: in every reachable tracker state every dialogue entry has
\* revision_count <= max_revisions, whatever start_dialogue, record_response
\* and record_feedback calls were made.
C36_RevisionsBounded ==
    \A i \in 1..Len(dialogues) :
        dialogues[i].revision_count <= dialogues[i].max_revisions

\* C37: every APPROVED entry has a recorded response and a recorded feedback
\* with approved true, and no entry is APPROVED or FAILED while it has no
\* recorded response.
C37_TerminalHasResponse ==
    \A i \in 1..Len(dialogues) :
        /\ dialogues[i].state = APPROVED
             => /\ dialogues[i].feedback # None
                /\ dialogues[i].feedback.approved
        /\ dialogues[i].state \in Terminal => dialogues[i].response # None

\* The calls for id c made since its entry was last created hold a
\* record_response.
RespondedSinceStart(c) ==
    LET s == CallsFor(c)
    IN  \E i \in 1..Len(s) :
           /\ s[i] = "response"
           /\ \E j \in 1..(i - 1) : s[j] = "start"
           /\ \A j \in (i + 1)..Len(s) : s[j] # "start"

\* C37, amended: every APPROVED entry holds a feedback with approved true and
\* every FAILED entry a feedback with approved false, and an entry holds a
\* response exactly when a record_response for its id succeeded since it was
\* created; the tracker itself accepts a feedback for an entry that has no
\* response yet.
C37_TerminalHasFeedback ==
    \A i \in 1..Len(dialogues) :
        /\ dialogues[i].state = APPROVED
             => /\ dialogues[i].feedback # None
                /\ dialogues[i].feedback.approved
        /\ dialogues[i].state = FAILED
             => /\ dialogues[i].feedback # None
                /\ ~dialogues[i].feedback.approved
        /\ dialogues[i].response # None <=> RespondedSinceStart(dialogues[i].correlation_id)

\* An entry was approved after its response had been recorded.
C37_Witness ==
    \E i \in 1..Len(dialogues) :
        /\ dialogues[i].state = APPROVED
        /\ dialogues[i].response # None
        /\ dialogues[i].feedback.approved
        /\ RespondedSinceStart(dialogues[i].correlation_id)

\* C38: when PlanResponses with one correlation id are handled concurrently,
\* a feedback is recorded only for the response the entry holds at that moment
\* (the one that was reviewed), and a feedback recorded for an APPROVED entry
\* leaves it APPROVED.
C38_ReviewsSerialized ==
    [][\A t \in 1..Len(tasks), text \in ReviewTexts :
          (ReviewReturns(t, text) /\ ~review_raises(text))
          => LET cid == tasks[t].msg.correlation_id
                 entry == get_dialogue(dialogues, cid)
             IN  /\ entry.response = tasks[t].msg
                 /\ entry.state = APPROVED
                      => get_dialogue(dialogues', cid).state = APPROVED]_vars

\* The coroutines of the dialogue cid: the delegation and every publish and
\* handler of a message that carries cid.
ChainOf(cid) ==
    {t \in 1..Len(tasks) : tasks[t].msg.id = cid \/ tasks[t].msg.correlation_id = cid}

\* The delegations to a subscribed sub-actor that have returned and in whose
\* dialogue no coroutine raised.
ReturnedDelegations ==
    {t \in 1..Len(tasks) :
        /\ tasks[t].fn = "delegate_to_agent"
        /\ tasks[t].pc = "done"
        /\ tasks[t].msg.recipient \in SubActors
        /\ \A u \in ChainOf(tasks[t].msg.id) : tasks[u].pc # "raised"}

\* C39: when delegate_to_agent to a subscribed sub-actor has returned and no
\* generation call or handler of its dialogue raised, the dialogue is APPROVED
\* and every publish and handler of a message with its correlation id has
\* returned: the whole chain ran inside the publish of the request.
C39_ChainNested ==
    \A t \in ReturnedDelegations :
        /\ get_dialogue(dialogues, tasks[t].msg.id).state = APPROVED
        /\ \A u \in ChainOf(tasks[t].msg.id) : tasks[u].pc = "done"

\* A delegation returned after a rejection, a revised response and an
\* approval.
C39_Witness ==
    \E t \in ReturnedDelegations :
        /\ get_dialogue(dialogues, tasks[t].msg.id).revision_count = 1
        /\ get_dialogue(dialogues, tasks[t].msg.id).state = APPROVED
        /\ \E k \in 1..Len(history) :
              /\ history[k].kind = "ReviewFeedback"
              /\ history[k].correlation_id = tasks[t].msg.id
              /\ ~history[k].approved

\* The coordinator's handlers of a PlanResponse.
ReviewHandlers ==
    {t \in 1..Len(tasks) :
        /\ tasks[t].self = Orchestrator
        /\ tasks[t].fn = "_handle_message"
        /\ tasks[t].msg.kind = "PlanResponse"}

\* C40: when the generation call of a review raises, the step records and
\* publishes nothing and the publish that delivered the PlanResponse returns
\* normally; from then on the entry is in AWAITING_REVIEW, holds that response
\* and keeps its revision_count, and the sub-actor's coroutine never raises.
C40_ReviewRaiseContained ==
    [][\A t \in ReviewHandlers :
          LET cid == tasks[t].msg.correlation_id
              entry == get_dialogue(dialogues, cid)
              sender == tasks[t].parent
          IN  /\ (tasks[t].pc = "call_llm" /\ tasks'[t].pc = "raised")
                   => /\ dialogues' = dialogues
                      /\ history' = history
                      /\ entry.state = AWAITING_REVIEW
                      /\ entry.response = tasks[t].msg
                      /\ gather(tasks', sender) = "done"
              /\ tasks[t].pc = "raised"
                   => /\ get_dialogue(dialogues', cid) = entry
                      /\ entry.state = AWAITING_REVIEW
                      /\ tasks'[sender].pc \in {"gather", "done"}]_vars

\* A review raised, the sub-actor's publish returned, and the entry still
\* waits for its review with the response stored.
C40_Witness ==
    \E t \in ReviewHandlers :
        /\ tasks[t].pc = "raised"
        /\ tasks[tasks[t].parent].pc = "done"
        /\ tasks[tasks[t].parent].self \in SubActors
        /\ get_dialogue(dialogues, tasks[t].msg.correlation_id).state = AWAITING_REVIEW
        /\ get_dialogue(dialogues, tasks[t].msg.correlation_id).response = tasks[t].msg


====
